---- MODULE Spec2Model ----
(***************************************************************************)
(* Virtual port manager of SerialTerminal: the orchestrator                *)
(* (VirtualPortDialog), the privilege-elevation launcher                   *)
(* (ElevatedHelperWorker), the helper-side executor                        *)
(* (port_manager_helper.py), the listing parser (PortListParser) and the   *)
(* port allocator.                                                         *)
(*                                                                         *)
(* Text is a sequence of one-character strings; a listing is a sequence    *)
(* of lines (the text already split on newlines).                          *)
(***************************************************************************)
EXTENDS Integers, Sequences, FiniteSets, TLC

(***************************************************************************)
(* Bounds of the model.                                                    *)
(***************************************************************************)
\* number of requests the orchestrator may accept in one run of the model
MaxWorkers == 2
\* number of lines of a listing handed to the parser on its own
MaxLines == 3
\* number of port names in use handed to the allocator on its own
MaxUsed == 52

(***************************************************************************)
(* Program constants.                                                      *)
(***************************************************************************)
VIRTUAL_PORT_RANGE_START == 150
VIRTUAL_PORT_RANGE_END == 199
ERROR_CANCELLED == 1223

(***************************************************************************)
(* Text helpers (Python str methods used by the parser and the allocator). *)
(***************************************************************************)
Whitespace == {" ", "\t", "\r"}

DigitChars == <<"0", "1", "2", "3", "4", "5", "6", "7", "8", "9">>

IsDigit(c) == \E i \in 1..10 : DigitChars[i] = c

DigitVal(c) == (CHOOSE i \in 1..10 : DigitChars[i] = c) - 1

\* s[from..] (Python slice s[from-1:])
Drop(s, n) == IF n >= Len(s) THEN <<>> ELSE SubSeq(s, n + 1, Len(s))

StartsWith(s, p) == Len(s) >= Len(p) /\ SubSeq(s, 1, Len(p)) = p

RECURSIVE LStrip(_)
LStrip(s) == IF s # <<>> /\ Head(s) \in Whitespace THEN LStrip(Tail(s)) ELSE s

RECURSIVE RStrip(_)
RStrip(s) ==
    IF s # <<>> /\ s[Len(s)] \in Whitespace
    THEN RStrip(SubSeq(s, 1, Len(s) - 1))
    ELSE s

\* a strip() that removes nothing
StripNothing(s) == s

\* str.strip()
Strip(s) == RStrip(LStrip(s))

\* length of the longest prefix of s without a character of seps
RECURSIVE PrefixLen(_, _)
PrefixLen(s, seps) ==
    IF s = <<>> \/ Head(s) \in seps THEN 0 ELSE 1 + PrefixLen(Tail(s), seps)

\* str.split(): split on runs of whitespace, no empty tokens
RECURSIVE SplitWS(_)
SplitWS(s) ==
    LET t == LStrip(s)
        n == PrefixLen(t, Whitespace)
    IN  IF t = <<>> THEN <<>>
        ELSE <<SubSeq(t, 1, n)>> \o SplitWS(Drop(t, n))

\* str.split(sep) for a one-character separator: empty fields are kept
RECURSIVE SplitOn(_, _)
SplitOn(s, sep) ==
    LET n == PrefixLen(s, {sep})
    IN  IF n = Len(s) THEN <<s>>
        ELSE <<SubSeq(s, 1, n)>> \o SplitOn(Drop(s, n + 1), sep)

\* ' '.join(parts)
RECURSIVE JoinSpace(_)
JoinSpace(parts) ==
    IF parts = <<>> THEN <<>>
    ELSE IF Len(parts) = 1 THEN parts[1]
    ELSE parts[1] \o <<" ">> \o JoinSpace(Tail(parts))

\* value of a string of digits and underscores, left to right
RECURSIVE DigitsValue(_, _)
DigitsValue(s, acc) ==
    IF s = <<>> THEN acc
    ELSE IF Head(s) = "_" THEN DigitsValue(Tail(s), acc)
    ELSE DigitsValue(Tail(s), 10 * acc + DigitVal(Head(s)))

\* Python int(s) on a token without whitespace: an optional sign, then
\* digits, single underscores allowed between digits.  ok = FALSE stands
\* for ValueError.
PyInt(s) ==
    LET signed == s # <<>> /\ Head(s) \in {"+", "-"}
        body   == IF signed THEN Tail(s) ELSE s
        wellformed ==
            /\ body # <<>>
            /\ \A i \in 1..Len(body) : IsDigit(body[i]) \/ body[i] = "_"
            /\ body[1] # "_"
            /\ body[Len(body)] # "_"
            /\ \A i \in 1..(Len(body) - 1) : ~(body[i] = "_" /\ body[i + 1] = "_")
        mag == DigitsValue(body, 0)
    IN  IF ~wellformed THEN [ok |-> FALSE, val |-> 0]
        ELSE [ok |-> TRUE, val |-> IF signed /\ Head(s) = "-" THEN 0 - mag ELSE mag]

\* decimal rendering of a natural number (Python f"{n}")
RECURSIVE Decimal(_)
Decimal(n) ==
    IF n < 10 THEN <<DigitChars[n + 1]>>
    ELSE Decimal(n \div 10) \o <<DigitChars[(n % 10) + 1]>>

(***************************************************************************)
(* Data model: Port, PortPair, CommandResult.                              *)
(***************************************************************************)
CNC == <<"C", "N", "C">>
COM == <<"C", "O", "M">>
PromptEcho == <<"c", "o", "m", "m", "a", "n", "d", ">">>
PortNameKey == <<"P", "o", "r", "t", "N", "a", "m", "e">>

\* Port(identifier=...) with the dataclass defaults
Port(identifier) == [identifier |-> identifier, port_name |-> <<>>, parameters |-> <<>>]

\* PortPair(...) as the parser constructs it; __post_init__ fills in an
\* identifier that is empty
PortPair(number, port_a, port_b, status) ==
    [number |-> number,
     port_a |-> IF port_a.identifier = <<>>
                THEN [port_a EXCEPT !.identifier = CNC \o <<"A">> \o Decimal(number)]
                ELSE port_a,
     port_b |-> IF port_b.identifier = <<>>
                THEN [port_b EXCEPT !.identifier = CNC \o <<"B">> \o Decimal(number)]
                ELSE port_b,
     status |-> status]

\* f"CNCA{n}" / f"CNCB{n}" for any int n
PortIdent(side, n) ==
    CNC \o <<side>> \o (IF n < 0 THEN <<"-">> \o Decimal(0 - n) ELSE Decimal(n))

(***************************************************************************)
(* PortListParser                                                          *)
(***************************************************************************)
\* one "key=value" field folded into the dictionary; a field without "="
\* is ignored, a repeated key overwrites
ParseOneParameter(parameters, field) ==
    LET param == Strip(field)
        n     == PrefixLen(param, {"="})
        key   == Strip(SubSeq(param, 1, n))
        value == Strip(Drop(param, n + 1))
    IN  IF n = Len(param) THEN parameters
        ELSE [k \in (DOMAIN parameters) \cup {key} |->
                 IF k = key THEN value ELSE parameters[k]]

RECURSIVE ParseParameterFields(_, _)
ParseParameterFields(fields, parameters) ==
    IF fields = <<>> THEN parameters
    ELSE ParseParameterFields(Tail(fields), ParseOneParameter(parameters, Head(fields)))

\* a _parse_parameters that finds no parameter
ParseParametersNone(params_str) == <<>>

\* PortListParser._parse_parameters
ParseParameters(params_str) == ParseParameterFields(SplitOn(params_str, ","), <<>>)

\* index of the pair with this number in port_pairs, 0 if there is none
PairIndex(port_pairs, pair_num) ==
    IF \E i \in 1..Len(port_pairs) : port_pairs[i].number = pair_num
    THEN CHOOSE i \in 1..Len(port_pairs) :
            /\ port_pairs[i].number = pair_num
            /\ \A j \in 1..(i - 1) : port_pairs[j].number # pair_num
    ELSE 0

\* the port of one data line: identifier, parameters and port name set
SetPortData(port, port_id, parts) ==
    LET p1 == [port EXCEPT !.identifier = port_id]
    IN  IF Len(parts) > 1
        THEN LET params == ParseParameters(JoinSpace(Tail(parts)))
                 p2     == [p1 EXCEPT !.parameters = params]
             IN  IF PortNameKey \in DOMAIN params
                 THEN [p2 EXCEPT !.port_name = params[PortNameKey]]
                 ELSE p2
        ELSE p1

\* body of the loop of parse_port_list for one line
ParseLine(port_pairs, rawline) ==
    LET line == Strip(rawline)
    IN  IF line = <<>> \/ StartsWith(line, PromptEcho) THEN port_pairs
        ELSE IF ~StartsWith(line, CNC) THEN port_pairs
        ELSE
          LET parts   == SplitWS(line)
              port_id == parts[1]
          IN  IF Len(port_id) < 5 \/ port_id[4] \notin {"A", "B"} THEN port_pairs
              ELSE
                LET num == PyInt(Drop(port_id, 4))
                IN  IF ~num.ok THEN port_pairs
                    ELSE
                      LET pair_num  == num.val
                          port_type == port_id[4]
                          found     == PairIndex(port_pairs, pair_num)
                          pairs1    ==
                              IF found = 0
                              THEN Append(port_pairs,
                                       PortPair(pair_num,
                                                Port(PortIdent("A", pair_num)),
                                                Port(PortIdent("B", pair_num)),
                                                "Active"))
                              ELSE port_pairs
                          i == IF found = 0 THEN Len(pairs1) ELSE found
                      IN  IF port_type = "A"
                          THEN [pairs1 EXCEPT ![i].port_a =
                                   SetPortData(pairs1[i].port_a, port_id, parts)]
                          ELSE [pairs1 EXCEPT ![i].port_b =
                                   SetPortData(pairs1[i].port_b, port_id, parts)]

RECURSIVE ParseLines(_, _)
ParseLines(lines, port_pairs) ==
    IF lines = <<>> THEN port_pairs
    ELSE ParseLines(Tail(lines), ParseLine(port_pairs, Head(lines)))

\* insertion of p into a list sorted by number, after the entries that
\* compare equal (sorted() is stable)
RECURSIVE InsertByNumber(_, _)
InsertByNumber(sorted, p) ==
    IF sorted = <<>> THEN <<p>>
    ELSE IF p.number < Head(sorted).number THEN <<p>> \o sorted
    ELSE <<Head(sorted)>> \o InsertByNumber(Tail(sorted), p)

RECURSIVE SortedByNumber(_)
SortedByNumber(pairs) ==
    IF pairs = <<>> THEN <<>>
    ELSE InsertByNumber(SortedByNumber(SubSeq(pairs, 1, Len(pairs) - 1)),
                        pairs[Len(pairs)])

\* parse_port_list returning port_pairs as the loop left them
ParsePortListUnsorted(output) == ParseLines(output, <<>>)

\* PortListParser.parse_port_list
ParsePortList(output) == SortedByNumber(ParseLines(output, <<>>))

(***************************************************************************)
(* Port allocator                                                          *)
(***************************************************************************)
\* the number of one OS-visible port name, {} if it is not COM<int>
PortNumberOf(port_name) ==
    IF port_name # <<>> /\ StartsWith(port_name, COM)
    THEN LET n == PyInt(Drop(port_name, 3))
         IN  IF n.ok THEN {n.val} ELSE {}
    ELSE {}

\* port numbers taken from the first pair only
GetExistingPortNumbersOfFirst(pairs) ==
    IF pairs = <<>> THEN {}
    ELSE PortNumberOf(pairs[1].port_a.port_name) \cup PortNumberOf(pairs[1].port_b.port_name)

\* VirtualPortDialog._get_existing_port_numbers
GetExistingPortNumbers(pairs) ==
    UNION {PortNumberOf(pairs[i].port_a.port_name) \cup PortNumberOf(pairs[i].port_b.port_name)
           : i \in 1..Len(pairs)}

\* a scan that tests the candidate alone, not the port after it
FreeCandidatesSingle(pairs) ==
    LET existing == GetExistingPortNumbers(pairs)
    IN  {c \in VIRTUAL_PORT_RANGE_START..VIRTUAL_PORT_RANGE_END : c \notin existing}

\* the candidates the scan of _get_port_availability accepts
FreeCandidates(pairs) ==
    LET existing == GetExistingPortNumbers(pairs)
    IN  {c \in VIRTUAL_PORT_RANGE_START..VIRTUAL_PORT_RANGE_END :
            c \notin existing /\ (c + 1) \notin existing}

\* an allocator that counts its candidate only
GetPortAvailabilityFirstOnly(pairs) ==
    LET free == FreeCandidates(pairs)
    IN  [next_port |-> IF free = {} THEN -1
                       ELSE CHOOSE c \in free : \A d \in free : c <= d,
         count |-> IF free = {} THEN 0 ELSE 1]

\* VirtualPortDialog._get_port_availability; next_port = -1 stands for None
GetPortAvailability(pairs) ==
    LET free == FreeCandidates(pairs)
    IN  [next_port |-> IF free = {} THEN -1
                       ELSE CHOOSE c \in free : \A d \in free : c <= d,
         count |-> Cardinality(free)]

(***************************************************************************)
(* Inputs: listing texts the tool may print for "list".                    *)
(***************************************************************************)
\* CNCA0 PortName=COM150,EmuBR=yes / CNCB0 PortName=COM151,EmuBR=yes
ListingOnePair ==
    <<<<"C", "N", "C", "A", "0", " ", "P", "o", "r", "t", "N", "a", "m", "e", "=", "C", "O", "M", "1", "5", "0", ",", "E", "m", "u", "B", "R", "=", "y", "e", "s">>,
      <<"C", "N", "C", "B", "0", " ", "P", "o", "r", "t", "N", "a", "m", "e", "=", "C", "O", "M", "1", "5", "1", ",", "E", "m", "u", "B", "R", "=", "y", "e", "s">>>>

\* a prompt echo, pair 1 (B side first), a blank and a malformed line, pair 0
ListingTwoPairs ==
    <<<<"c", "o", "m", "m", "a", "n", "d", ">", " ", "l", "i", "s", "t">>,
      <<"C", "N", "C", "B", "1", " ", "P", "o", "r", "t", "N", "a", "m", "e", "=", "C", "O", "M", "1", "5", "3">>,
      <<"C", "N", "C", "A", "1", " ", "P", "o", "r", "t", "N", "a", "m", "e", "=", "C", "O", "M", "1", "5", "2">>,
      <<>>,
      <<"C", "N", "C", "X", "9", " ", "j", "u", "n", "k">>,
      <<"C", "N", "C", "A", "0", " ", "P", "o", "r", "t", "N", "a", "m", "e", "=", "C", "O", "M", "1", "5", "0">>,
      <<"C", "N", "C", "B", "0", " ", "P", "o", "r", "t", "N", "a", "m", "e", "=", "C", "O", "M", "1", "5", "1">>>>

\* the tool prints nothing: no pairs
ListingEmpty == <<>>

Listings == {ListingEmpty, ListingOnePair, ListingTwoPairs}

\* text of a result channel caught in the middle of the helper's write
PartialText == <<<<"{", "\"", "s", "u", "c">>>>

(***************************************************************************)
(* CommandResult and the structured record                                 *)
(***************************************************************************)
\* CommandResult(...) of either module; execution_time is the elapsed
\* wall-clock time, abstracted to one value
CommandResult(success, output, error, return_code, command) ==
    [success |-> success, output |-> output, error |-> error,
     return_code |-> return_code, execution_time |-> "elapsed", command |-> command]

\* CommandResult.get_error_message: the text shown after "Error - "
GetErrorMessage(result) ==
    IF result.success THEN ""
    ELSE IF result.error # "" THEN result.error
    ELSE IF result.return_code # 0 THEN "Command failed with exit code"
    ELSE "Unknown error occurred"

\* CommandResult.to_dict of the helper: the six fields of the record
ToDict(result) ==
    [k \in {"success", "output", "error", "return_code", "execution_time", "command"} |->
        result[k]]

\* dict.get(key, default) on a parsed record
Get(d, key, default) == IF key \in DOMAIN d THEN d[key] ELSE default

(***************************************************************************)
(* Commands and outcomes of the underlying tool                            *)
(***************************************************************************)
\* a command string: the operation word and its arguments; full marks the
\* helper's full_command, which is prefixed with the quoted tool path
ListCommand == [op |-> "list", port_a |-> 0, port_b |-> 0, number |-> 0, full |-> FALSE]
InstallCommand(a, b) ==
    [op |-> "install", port_a |-> a, port_b |-> b, number |-> 0, full |-> FALSE]
RemoveCommand(n) ==
    [op |-> "remove", port_a |-> 0, port_b |-> 0, number |-> n, full |-> FALSE]
\* the default command="" of CommandResult
NoCommand == [op |-> "", port_a |-> 0, port_b |-> 0, number |-> 0, full |-> FALSE]

\* the command the helper's main takes from the parameter string the
\* launcher builds ('"<tool>" <command> <timeout> --output-file "<file>"'):
\* sys.argv[2] is the first word of <command>; the following words are
\* read as timeout candidates and the last integer among them wins, which
\* is the launcher's own timeout
HelperArgvCommand(command) ==
    [op |-> command.op, port_a |-> 0, port_b |-> 0, number |-> 0, full |-> FALSE]

\* a command string with an unclosed quote, and shlex.split accepting a
\* command string (it raises ValueError otherwise)
UnclosedQuoteCommand ==
    [op |-> "\"", port_a |-> 0, port_b |-> 0, number |-> 0, full |-> FALSE]

Tokenizable(command) == command.op # UnclosedQuoteCommand.op

\* full_command = f'"{setupc_path}" {command}'
FullCommand(command) == [command EXCEPT !.full = TRUE]

\* what subprocess.run of the tool can do: exit with a code, stdout and
\* stderr; exceed the timeout; fail to start (FileNotFoundError when the
\* executable has gone, another OSError otherwise)
ToolOutcomes(command) ==
    {[kind |-> "exit", code |-> 0, stdout |-> o, stderr |-> ""] :
        o \in IF command.op = "list" THEN Listings ELSE {ListingEmpty}}
    \cup {[kind |-> "exit", code |-> 0, stdout |-> ListingEmpty, stderr |-> "stderr text"],
          [kind |-> "exit", code |-> 1, stdout |-> ListingEmpty, stderr |-> "stderr text"],
          [kind |-> "exit", code |-> 1, stdout |-> ListingEmpty, stderr |-> ""],
          [kind |-> "exit", code |-> ERROR_CANCELLED, stdout |-> ListingEmpty,
           stderr |-> "stderr text"],
          [kind |-> "notfound", code |-> 0, stdout |-> ListingEmpty, stderr |-> ""],
          [kind |-> "timeout", code |-> 0, stdout |-> ListingEmpty, stderr |-> ""],
          [kind |-> "oserror", code |-> 0, stdout |-> ListingEmpty, stderr |-> ""]}

\* the outcomes the runs of the state machine draw from: the tool
\* succeeds (for "list" with one of the listings), fails with exit code 1
\* and a message on stderr, or exceeds the timeout
RunOutcomes(command) ==
    {o \in ToolOutcomes(command) :
        \/ o.kind = "exit" /\ o.code = 0 /\ o.stderr = ""
        \/ o.kind = "exit" /\ o.code = 1 /\ o.stderr # ""
        \/ o.kind = "timeout"}

\* what a run of the tool can do when it holds the pairs of the listing
\* tool: "list" prints them; "install" with port names that are in use
\* does not succeed.  arguments tells whether the words after the
\* operation reach the tool.
ToolRuns(tool_pairs, command, arguments) ==
    LET in_use == GetExistingPortNumbers(ParsePortList(tool_pairs))
        Printed(o) ==
            IF o.kind = "exit" /\ o.code = 0 /\ command.op = "list"
            THEN [o EXCEPT !.stdout = tool_pairs] ELSE o
    IN  {Printed(o) : o \in
            {o \in RunOutcomes(command) :
                (/\ o.kind = "exit" /\ o.code = 0
                 /\ command.op = "install" /\ arguments) =>
                   {command.port_a, command.port_b} \cap in_use = {}}}

\* the pairs the tool holds after the run: a successful "install" adds
\* a pair under the lowest free number, with the port names if they
\* reached the tool; a successful "remove <n>" takes the lines of pair n
\* away
ToolAfter(tool_pairs, command, arguments, outcome) ==
    LET numbers == {p.number : p \in {ParsePortList(tool_pairs)[i] :
                                         i \in 1..Len(ParsePortList(tool_pairs))}}
        k == CHOOSE n \in 0..Len(tool_pairs) : n \notin numbers
        Line(side, port) ==
            PortIdent(side, k)
               \o (IF arguments THEN <<" ">> \o PortNameKey \o <<"=">> \o COM \o Decimal(port)
                   ELSE <<>>)
        OfOtherPair(line) ==
            LET pairs == ParsePortList(<<line>>)
            IN  pairs = <<>> \/ pairs[1].number # command.number
    IN  IF outcome.kind # "exit" \/ outcome.code # 0 THEN tool_pairs
        ELSE IF command.op = "install"
        THEN tool_pairs \o <<Line("A", command.port_a), Line("B", command.port_b)>>
        ELSE IF command.op = "remove" /\ arguments
        THEN SelectSeq(tool_pairs, OfOtherPair)
        ELSE tool_pairs

(***************************************************************************)
(* ElevatedCommandExecutor (port_manager_helper.py)                        *)
(***************************************************************************)
\* execute_setupc_command
ExecuteSetupcCommand(setupc_exists, command, outcome) ==
    LET full_command == FullCommand(command)
    IN  IF ~setupc_exists
        THEN CommandResult(FALSE, ListingEmpty, "setupc.exe not found", -2, full_command)
        ELSE IF ~Tokenizable(command)
        THEN CommandResult(FALSE, ListingEmpty, "Invalid command format", -4, full_command)
        ELSE IF outcome.kind = "notfound"
        THEN CommandResult(FALSE, ListingEmpty, "setupc.exe not found", -2, full_command)
        ELSE IF outcome.kind = "timeout"
        THEN CommandResult(FALSE, ListingEmpty, "Command timed out", -1, full_command)
        ELSE IF outcome.kind = "oserror"
        THEN CommandResult(FALSE, ListingEmpty, "Unexpected error", -3, full_command)
        ELSE CommandResult(outcome.code = 0, outcome.stdout, outcome.stderr,
                           outcome.code, full_command)

\* the record of the catastrophic path of main, as to_dict serializes it
CrashRecord ==
    ToDict(CommandResult(FALSE, ListingEmpty, "Helper crashed", -99, NoCommand))

\* the hand-built record of the catastrophic path: three fields only
HandBuiltCrashRecord ==
    [k \in {"success", "error", "return_code"} |->
        IF k = "success" THEN FALSE
        ELSE IF k = "error" THEN "Critical failure" ELSE -99]

(***************************************************************************)
(* ResultChannel: the temp file.  kind is "nofile", "empty", "garbage"     *)
(* (text json.loads rejects), "nonobject" (valid JSON that is no object)   *)
(* or "object" (a JSON object, obj holding its fields).                    *)
(***************************************************************************)
NoFile == [kind |-> "nofile", obj |-> <<>>, raw |-> ListingEmpty]
EmptyFile == [kind |-> "empty", obj |-> <<>>, raw |-> ListingEmpty]
GarbageFile == [kind |-> "garbage", obj |-> <<>>, raw |-> PartialText]
NonObjectFile == [kind |-> "nonobject", obj |-> <<>>, raw |-> <<<<"[", "]">>>>]
\* a file that keeps nothing of what was written to it
ObjectFileEmptied(obj) == [kind |-> "empty", obj |-> <<>>, raw |-> ListingEmpty]

ObjectFile(obj) == [kind |-> "object", obj |-> obj, raw |-> ListingEmpty]

\* the option --output-file as an argument of the helper
OutputFileOption == <<"-", "-", "o", "u", "t", "p", "u", "t", "-", "f", "i", "l", "e">>

\* the loop of main() over sys.argv[3:], args being sys.argv[1:] and idx
\* the place in it: --output-file takes the argument after it; any other
\* argument is the timeout if int() accepts it, and is ignored if not
RECURSIVE ParseArgv(_, _, _)
ParseArgv(args, idx, parsed) ==
    IF idx > Len(args) THEN parsed
    ELSE IF args[idx] = OutputFileOption /\ idx + 1 <= Len(args)
    THEN ParseArgv(args, idx + 2, [parsed EXCEPT !.output_file = TRUE])
    ELSE LET n == PyInt(Strip(args[idx]))
         IN  ParseArgv(args, idx + 1,
                       IF n.ok THEN [parsed EXCEPT !.timeout = n.val] ELSE parsed)

\* the command string sys.argv[2] as a command of the model
CommandOfArgument(arg) ==
    IF arg = <<"l", "i", "s", "t">> THEN ListCommand
    ELSE IF arg = <<"\"">> THEN UnclosedQuoteCommand
    ELSE [ListCommand EXCEPT !.op = "other"]

\* print(..., flush=True): one more record on standard output
PrintLineDropped(stdout, record) == stdout

PrintLine(stdout, record) == Append(stdout, record)

\* the exit status of the normal path of main
ExitStatusZero(result) == 0

ExitStatus(result) == IF result.success THEN 0 ELSE 1

\* main() of the helper.  input: args, the arguments after the program
\* name; setupc_exists, whether the tool is at the path named "setupc";
\* writable, whether the output file can be opened; fault, whether an
\* unexpected exception is raised in the try block once the arguments are
\* accepted; outcome as for execute_setupc_command.  The result: the
\* CommandResult, the records printed on standard output, what the output
\* file holds, the exit status, and whether subprocess.run was reached.
HelperMain(input) ==
    LET args    == input.args
        parsed  == ParseArgv(args, 3, [timeout |-> 30, output_file |-> FALSE])
        timeout == parsed.timeout
        exists  == input.setupc_exists /\ args[1] = <<"s", "e", "t", "u", "p", "c">>
        command == CommandOfArgument(args[2])
        usage   == CommandResult(FALSE, ListingEmpty, "Usage", -10, NoCommand)
        invalid == CommandResult(FALSE, ListingEmpty, "Invalid timeout value", -11,
                                 NoCommand)
        crashed == CommandResult(FALSE, ListingEmpty, "Helper crashed", -99, NoCommand)
        result  == ExecuteSetupcCommand(exists, command, input.outcome)
        unwritten == [k \in {"success", "error", "return_code"} |->
                        IF k = "success" THEN FALSE
                        ELSE IF k = "error" THEN "Failed to write output file" ELSE -12]
        \* the except branch of main
        Catastrophic ==
            IF parsed.output_file /\ ~input.writable
            THEN [record |-> crashed, stdout |-> PrintLine(<<>>, HandBuiltCrashRecord),
                  file |-> NoFile, exit_code |-> 99, started |-> FALSE]
            ELSE [record |-> crashed, stdout |-> PrintLine(<<>>, CrashRecord),
                  file |-> IF parsed.output_file THEN ObjectFile(CrashRecord) ELSE NoFile,
                  exit_code |-> 99, started |-> FALSE]
    IN  IF Len(args) < 2
        THEN [record |-> usage, stdout |-> PrintLine(<<>>, ToDict(usage)), file |-> NoFile,
              exit_code |-> 1, started |-> FALSE]
        ELSE IF timeout <= 0 \/ timeout > 300
        THEN IF parsed.output_file /\ ~input.writable
             THEN Catastrophic
             ELSE [record |-> invalid, stdout |-> PrintLine(<<>>, ToDict(invalid)),
                   file |-> IF parsed.output_file THEN ObjectFile(ToDict(invalid))
                            ELSE NoFile,
                   exit_code |-> 1, started |-> FALSE]
        ELSE IF input.fault
        THEN Catastrophic
        ELSE IF parsed.output_file /\ ~input.writable
        THEN [record |-> result, stdout |-> PrintLine(<<>>, unwritten), file |-> NoFile,
              exit_code |-> 1, started |-> exists /\ Tokenizable(command)]
        ELSE [record |-> result, stdout |-> PrintLine(<<>>, ToDict(result)),
              file |-> IF parsed.output_file THEN ObjectFile(ToDict(result)) ELSE NoFile,
              exit_code |-> ExitStatus(result),
              started |-> exists /\ Tokenizable(command)]

(***************************************************************************)
(* PrivilegeElevationLauncher (ElevatedHelperWorker): pure parts           *)
(***************************************************************************)
\* _execute_direct_command: the tool run without elevation
ExecuteDirectCommand(setupc_exists, command, outcome) ==
    IF ~setupc_exists \/ outcome.kind # "exit"
    THEN CommandResult(FALSE, ListingEmpty, "Dev mode execution failed", -3, command)
    ELSE CommandResult(outcome.code = 0, outcome.stdout,
                       IF outcome.stderr # "" THEN outcome.stderr
                       ELSE IF outcome.code = 0
                            THEN "Command completed (dev mode - no elevation)"
                            ELSE "Command failed - may require elevation",
                       outcome.code, command)

\* the except clauses of run(): FileNotFoundError, then Exception
RunExcept(exception, command) ==
    IF exception = "FileNotFoundError"
    THEN CommandResult(FALSE, ListingEmpty, "Port Manager helper not found", -2, command)
    ELSE CommandResult(FALSE, ListingEmpty, "Failed to launch elevated helper", -3, command)

\* the inner try of run() on the text read from the channel: the result
\* it builds, or the exception that leaves it
ParseResponse(stdout, return_code, command) ==
    IF stdout.kind \in {"nofile", "empty"}
    THEN [exception |-> "",
          result |-> CommandResult(FALSE, ListingEmpty,
                        IF return_code = ERROR_CANCELLED
                        THEN "Administrator privileges required (UAC prompt was denied)"
                        ELSE "Helper process failed with exit code",
                        return_code, command)]
    ELSE IF stdout.kind = "garbage"
    THEN [exception |-> "",
          result |-> CommandResult(FALSE, stdout.raw, "Invalid response from helper",
                                   return_code, command)]
    ELSE IF stdout.kind = "nonobject"
    THEN [exception |-> "AttributeError",
          result |-> CommandResult(FALSE, ListingEmpty, "", 0, NoCommand)]
    ELSE [exception |-> "",
          result |-> CommandResult(Get(stdout.obj, "success", FALSE),
                                   Get(stdout.obj, "output", ListingEmpty),
                                   Get(stdout.obj, "error", ""),
                                   Get(stdout.obj, "return_code", return_code),
                                   Get(stdout.obj, "command", command))]

\* lines 432-476 with the except clauses behind them: the command_result
\* run() ends up with
HelperResponseResult(stdout, return_code, command) ==
    LET r == ParseResponse(stdout, return_code, command)
    IN  IF r.exception = "" THEN r.result ELSE RunExcept(r.exception, command)

\* the ways _execute_elevated_command returns: ShellExecuteEx refused by
\* the user, failed otherwise, or gave no process handle; the wait timed
\* out; the exit code could not be read; the helper exited
ElevatedCauses ==
    {"denied", "launch_failed", "no_handle", "wait_timeout", "exit_unreadable", "exited"}

\* the return_code of _execute_elevated_command, exit_code being the exit
\* code of the helper process
ElevatedReturnCode(cause, exit_code) ==
    IF cause = "denied" THEN ERROR_CANCELLED
    ELSE IF cause = "launch_failed" THEN -1
    ELSE IF cause = "no_handle" THEN -1
    ELSE IF cause = "wait_timeout" THEN -1
    ELSE IF cause = "exit_unreadable" THEN -1
    ELSE exit_code

\* the parameter string of _execute_elevated_command as the helper's
\* sys.argv[1:]: the tool path, the words of the command, the timeout,
\* --output-file and the file name
Parameters(command, timeout) ==
    LET Word(port) == PortNameKey \o <<"=">> \o COM \o Decimal(port)
                         \o <<",", "E", "m", "u", "B", "R", "=", "y", "e", "s">>
        words == IF command.op = "install"
                 THEN <<<<"i", "n", "s", "t", "a", "l", "l">>, Word(command.port_a),
                        Word(command.port_b)>>
                 ELSE IF command.op = "remove"
                 THEN <<<<"r", "e", "m", "o", "v", "e">>, Decimal(command.number)>>
                 ELSE <<<<"l", "i", "s", "t">>>>
    IN  <<<<"s", "e", "t", "u", "p", "c">>>> \o words
           \o <<Decimal(timeout), OutputFileOption, <<"o", "u", "t">>>>

\* timeout_ms of _execute_elevated_command: the bound of the wait for the
\* helper, 30 s more than the timeout
WaitMilliseconds(timeout) == (timeout + 30) * 1000

(***************************************************************************)
(* State                                                                   *)
(***************************************************************************)
Workers == 1..MaxWorkers

\* one output file for all invocations
OutputFileShared(w) == 1

\* output_file = temp_file.name of the run() of worker w:
\* tempfile.NamedTemporaryFile gives each invocation a name of its own.
\* Files are identified by the worker they were created for.
OutputFile(w) == w

VARIABLES
    call,                   \* the function call examined by PureSpec: inputs and result
    env,                    \* the installation: which files exist, packaged or not
    tool,                   \* the pairs the tool holds, as the listing it prints
    operation_in_progress,  \* VirtualPortDialog._operation_in_progress
    closing,                \* VirtualPortDialog._closing
    worker,                 \* VirtualPortDialog.worker: 0 is None
    port_pairs,             \* VirtualPortDialog.port_pairs
    toolbar,                \* status text, counter, button enablement
    ui,                     \* position of the UI thread
    dismissed,              \* closeEvent has accepted the close
    threads,                \* the ElevatedHelperWorker objects and their threads
    handles,                \* the process handle ShellExecuteEx returned, per worker
    helpers,                \* the elevated helper process of each worker
    channels                \* the temp file of each worker

vars == <<call, env, tool, operation_in_progress, closing, worker, port_pairs, toolbar, ui,
          dismissed, threads, handles, helpers, channels>>

\* no function is being examined
NoCall == [fn |-> "", input |-> <<>>, done |-> FALSE, result |-> <<>>]

NoResult == CommandResult(FALSE, ListingEmpty, "", 0, NoCommand)

\* ElevatedHelperWorker.__init__, before start()
NewThread(command, callback, timeout) ==
    [pc |-> "run", command |-> command, callback |-> callback, timeout |-> timeout,
     process |-> FALSE, hProcess |-> FALSE, return_code |-> 0,
     has_result |-> FALSE, result |-> NoResult,
     connected |-> "connected", signal |-> "none", emits |-> 0]

Unborn == [NewThread(NoCommand, "", 0) EXCEPT !.pc = "unborn", !.connected = "none"]

NoHandle == [state |-> "none", double_release |-> FALSE, used_after_release |-> FALSE]

NoHelper == [state |-> "none", phase |-> "", exit_code |-> 0, command |-> NoCommand]

\* the process is gone: only its exit code remains
Exited(h, state, exit_code) ==
    [h EXCEPT !.state = state, !.exit_code = exit_code, !.phase = "",
              !.command = NoCommand]

IdleUi == [pc |-> "idle", command |-> NoCommand, callback |-> "", timeout |-> 0,
           terminate_calls |-> 0, waits |-> 0]

\* a worker whose thread has ended and whose signal is not waiting for
\* delivery: of the object only what terminate() and the count of its
\* emissions read is left
Settle(t) ==
    IF t.pc \in {"finished", "killed"} /\ t.signal # "queued"
    THEN [Unborn EXCEPT !.pc = t.pc, !.process = t.process, !.emits = t.emits]
    ELSE t

\* a file that nothing reads any more: only that it exists is recorded
StaleFile == [kind |-> "stale", obj |-> <<>>, raw |-> <<>>]

LeftBehind(file) == IF file.kind = "nofile" THEN file ELSE StaleFile

\* run() is between creating its output file and reading it
Reads(t) == t.pc \in {"shellexec", "store", "wait", "getexit", "read"}

\* the exit code of a helper that has exited is recorded while the handle
\* that can query it is open
Unwatched(h) == IF h.state = "running" THEN h ELSE [h EXCEPT !.exit_code = 0]

\* QThread.isRunning
IsRunning(w) == threads[w].pc \notin {"unborn", "finished", "killed", "deleted"}

Born == {w \in Workers : threads[w].pc # "unborn"}

\* the installations the runs start from: the tool missing; the packaged
\* application with and without its helper; a development checkout
\* without a built helper (with one it takes the same paths as the
\* packaged application)
Installations ==
    {e \in [setupc_exists : BOOLEAN, frozen : BOOLEAN, helper_exists : BOOLEAN] :
        /\ ~e.setupc_exists => (e.frozen /\ e.helper_exists)
        /\ ~e.frozen => ~e.helper_exists}

\* VirtualPortDialog.__init__ with _check_com0com_installed: the fields
\* of a dialog that has done nothing yet
Idle ==
    /\ operation_in_progress = FALSE
    /\ closing = FALSE
    /\ worker = 0
    /\ port_pairs = <<>>
    /\ toolbar = [status |-> IF env.setupc_exists THEN "Ready" ELSE "com0com not installed at",
                  counter |-> -1, refresh |-> TRUE, create |-> env.setupc_exists]
    /\ ui = IdleUi
    /\ dismissed = FALSE
    /\ threads = [w \in Workers |-> Unborn]
    /\ handles = [w \in Workers |-> NoHandle]
    /\ helpers = [w \in Workers |-> NoHelper]
    /\ channels = [w \in Workers |-> NoFile]

Init ==
    /\ call = NoCall
    /\ env \in Installations
    /\ tool \in IF env.setupc_exists THEN {ListingOnePair} ELSE {ListingEmpty}
    /\ Idle

(***************************************************************************)
(* PortPairOrchestrator (VirtualPortDialog): the UI thread                 *)
(***************************************************************************)
\* the UI thread is in its event loop, not inside a blocking wait
UiFree == ui.pc = "idle"

\* _show_progress
ShowProgress(tb, message) ==
    [tb EXCEPT !.status = message, !.counter = -1, !.refresh = FALSE, !.create = FALSE]

\* _hide_progress
HideProgress(tb) == [tb EXCEPT !.refresh = TRUE, !.create = TRUE]

\* toolbar.set_status(message) without counts
SetStatus(tb, message) == [tb EXCEPT !.status = message, !.counter = -1]

\* _update_create_button_state
UpdateCreateButtonState(tb, pairs) ==
    IF GetPortAvailability(pairs).next_port # -1
    THEN IF env.setupc_exists THEN [tb EXCEPT !.create = TRUE] ELSE tb
    ELSE [tb EXCEPT !.create = FALSE]

\* the worker the next accepted request creates
NextWorker == Cardinality(Born) + 1

\* the model accepts at most MaxWorkers requests
CanStart == NextWorker <= MaxWorkers

\* command_finished.disconnect() on the current worker
Disconnected(ths) ==
    IF worker = 0 THEN ths
    ELSE [ths EXCEPT ![worker] = Settle([@ EXCEPT !.connected = "disconnected"])]

\* self.worker = ElevatedHelperWorker(...) drops the reference to the
\* previous worker: the object is gone.  It had emitted, or the
\* in-progress flag would still be set, so its thread had at most the
\* return of run() left: how that thread ends is not kept.
Deleted(t) ==
    IF t.signal = "queued" \/ t.pc \notin {"finishing", "finished", "killed"}
    THEN [t EXCEPT !.process = FALSE]
    ELSE [Unborn EXCEPT !.pc = "deleted", !.emits = t.emits]

\* worker = ElevatedHelperWorker(...); connect(callback); start().
\* What terminate() did with the handle of the deleted worker is not
\* kept.
StartWorker(ths, command, callback, timeout) ==
    /\ threads' = [w \in Workers |->
                      IF w = NextWorker THEN NewThread(command, callback, timeout)
                      ELSE IF w = worker THEN Deleted(ths[w])
                      ELSE ths[w]]
    /\ handles' = [w \in Workers |->
                      IF w = worker
                      THEN [handles[w] EXCEPT !.double_release = FALSE,
                                              !.used_after_release = FALSE]
                      ELSE handles[w]]
    /\ worker' = NextWorker

\* _execute_command past its guard: the flag is set, the previous worker
\* cleaned up (_cleanup_worker) and the new one started, unless the
\* previous thread is still running: then terminate() and wait(1000) come
\* first
AcceptCommand(ths, command, callback, timeout) ==
    /\ CanStart
    /\ operation_in_progress' = TRUE
    /\ IF worker # 0 /\ IsRunning(worker)
       THEN /\ threads' = Disconnected(ths)
            /\ ui' = [ui EXCEPT !.pc = "cleanup_terminate", !.command = command,
                                !.callback = callback, !.timeout = timeout]
            /\ UNCHANGED <<worker, handles>>
       ELSE /\ StartWorker(Disconnected(ths), command, callback, timeout)
            /\ UNCHANGED ui

\* the early return of _execute_command
DropCommand(ths, inprog) ==
    /\ operation_in_progress' = inprog
    /\ threads' = ths
    /\ UNCHANGED <<worker, ui, handles>>

\* _execute_command with only the closing flag in its guard
ExecuteCommandWhileBusy(ths, command, callback, timeout, inprog) ==
    IF closing THEN DropCommand(ths, inprog)
    ELSE AcceptCommand(ths, command, callback, timeout)

\* _execute_command, entered with the in-progress flag at inprog and the
\* worker objects at ths
ExecuteCommand(ths, command, callback, timeout, inprog) ==
    IF inprog \/ closing THEN DropCommand(ths, inprog)
    ELSE AcceptCommand(ths, command, callback, timeout)

\* _load_existing_pairs, entered with the flag at inprog, the worker
\* objects at ths and the toolbar at tb
LoadExistingPairs(ths, inprog, tb) ==
    IF ~env.setupc_exists
    THEN /\ operation_in_progress' = inprog
         /\ toolbar' = tb
         /\ threads' = ths
         /\ UNCHANGED <<worker, ui, handles>>
    ELSE /\ toolbar' = ShowProgress(tb, "Loading...")
         /\ ExecuteCommand(ths, ListCommand, "list", 30, inprog)

\* the Refresh action: _load_existing_pairs, a slot that can be invoked
\* whether or not the dialog is still shown
RequestList ==
    /\ UiFree
    /\ LoadExistingPairs(threads, operation_in_progress, toolbar)
    /\ UNCHANGED <<call, env, tool, closing, port_pairs, dismissed, helpers, channels>>

\* the single-shot timer of __init__: _safe_load_existing_pairs
SafeLoadExistingPairs ==
    /\ UiFree
    /\ IF closing
       THEN UNCHANGED <<operation_in_progress, toolbar, worker, threads, ui, handles>>
       ELSE LoadExistingPairs(threads, operation_in_progress, toolbar)
    /\ UNCHANGED <<call, env, tool, closing, port_pairs, dismissed, helpers, channels>>

\* the Create action: _create_new_pair and _create_pair_with_full_params
RequestCreate ==
    /\ UiFree
    /\ ~dismissed
    /\ LET port_a == GetPortAvailability(port_pairs).next_port
       IN  IF ~env.setupc_exists
           THEN /\ toolbar' = SetStatus(toolbar, "com0com not installed")
                /\ UNCHANGED <<operation_in_progress, worker, threads, ui, handles>>
           ELSE IF port_a = -1
           THEN /\ toolbar' = SetStatus(toolbar, "No available ports in range 150-200")
                /\ UNCHANGED <<operation_in_progress, worker, threads, ui, handles>>
           ELSE /\ toolbar' = ShowProgress(toolbar, "Creating...")
                /\ ExecuteCommand(threads, InstallCommand(port_a, port_a + 1), "create", 45,
                                  operation_in_progress)
    /\ UNCHANGED <<call, env, tool, closing, port_pairs, dismissed, helpers, channels>>

\* the remove button of row i: _remove_pair and _remove_pair_threaded
RequestRemove(i) ==
    /\ UiFree
    /\ ~dismissed
    /\ toolbar' = ShowProgress(toolbar, "Removing...")
    /\ ExecuteCommand(threads, RemoveCommand(port_pairs[i].number), "remove", 30,
                      operation_in_progress)
    /\ UNCHANGED <<call, env, tool, closing, port_pairs, dismissed, helpers, channels>>

\* the text a handler puts after "Error - "
ErrorStatus(result) == "Error - " \o GetErrorMessage(result)

\* the early return of the three handlers
DiscardResult(ths) ==
    /\ threads' = ths
    /\ UNCHANGED <<operation_in_progress, port_pairs, toolbar, worker, ui, handles>>

\* the success branch of _on_list_result, pairs being what it stores
ShowPairs(pairs) ==
    LET tb == [HideProgress(toolbar) EXCEPT
                  !.status = IF Len(pairs) > 0 THEN "Ready"
                             ELSE "No virtual port pairs found",
                  !.counter = GetPortAvailability(pairs).count]
    IN  /\ port_pairs' = pairs
        /\ toolbar' = UpdateCreateButtonState(tb, pairs)

\* the failure branch of _on_list_result
ShowListError(result) ==
    /\ toolbar' = UpdateCreateButtonState(
                      SetStatus(HideProgress(toolbar), ErrorStatus(result)), port_pairs)
    /\ UNCHANGED port_pairs

\* _on_list_result past its guard
HandleListResult(ths, result) ==
    /\ operation_in_progress' = FALSE
    /\ IF result.success THEN ShowPairs(ParsePortList(result.output))
       ELSE ShowListError(result)
    /\ threads' = ths
    /\ UNCHANGED <<worker, ui, handles>>

\* _on_list_result without its guard
OnListResultWhileClosing(ths, result) == HandleListResult(ths, result)

\* _on_list_result returning before it has cleared the flag
OnListResultDiscarding(ths, result) == DiscardResult(ths)

\* _on_list_result adding the parsed pairs to the ones it holds
OnListResultPatching(ths, result) ==
    IF closing THEN DiscardResult(ths)
    ELSE /\ operation_in_progress' = FALSE
         /\ IF result.success THEN ShowPairs(port_pairs \o ParsePortList(result.output))
            ELSE ShowListError(result)
         /\ threads' = ths
         /\ UNCHANGED <<worker, ui, handles>>

\* _on_list_result, the worker objects being at ths
OnListResult(ths, result) ==
    IF closing THEN DiscardResult(ths) ELSE HandleListResult(ths, result)

\* the failure branch of _on_pair_created and _on_remove_result
ShowMutationError(ths, result) ==
    /\ operation_in_progress' = FALSE
    /\ toolbar' = SetStatus(HideProgress(toolbar), ErrorStatus(result))
    /\ threads' = ths
    /\ UNCHANGED <<worker, ui, handles, port_pairs>>

\* the handler reloading the list after a failure as after a success
OnMutationResultReloading(ths, result, done_status) ==
    IF closing THEN DiscardResult(ths)
    ELSE /\ LoadExistingPairs(ths, FALSE, SetStatus(HideProgress(toolbar), done_status))
         /\ UNCHANGED port_pairs

\* _on_pair_created and _on_remove_result: one handler but for the text
OnMutationResult(ths, result, done_status) ==
    IF closing THEN DiscardResult(ths)
    ELSE IF result.success
    THEN /\ LoadExistingPairs(ths, FALSE, SetStatus(HideProgress(toolbar), done_status))
         /\ UNCHANGED port_pairs
    ELSE ShowMutationError(ths, result)

\* _on_pair_created
OnPairCreated(ths, result) == OnMutationResult(ths, result, "Created")

\* _on_remove_result
OnRemoveResult(ths, result) == OnMutationResult(ths, result, "Port pair removed")

\* the queued command_finished signal of worker w reaches its slot; a
\* signal disconnected after it was queued may still be delivered
Deliver(w) ==
    /\ UiFree
    /\ threads[w].signal = "queued"
    /\ LET ths == [threads EXCEPT ![w] = Settle([@ EXCEPT !.signal = "delivered"])]
           result == threads[w].result
       IN  IF threads[w].callback = "list" THEN OnListResult(ths, result)
           ELSE IF threads[w].callback = "create" THEN OnPairCreated(ths, result)
           ELSE OnRemoveResult(ths, result)
    /\ UNCHANGED <<call, env, tool, closing, dismissed, helpers, channels>>

\* a queued signal whose connection was cut before delivery is discarded
DropSignal(w) ==
    /\ UiFree
    /\ threads[w].signal = "queued"
    /\ threads[w].connected = "disconnected"
    /\ threads' = [threads EXCEPT ![w] = Settle([@ EXCEPT !.signal = "dropped"])]
    /\ UNCHANGED <<call, env, tool, operation_in_progress, closing, worker, port_pairs, toolbar, ui,
                   dismissed, handles, helpers, channels>>

(***************************************************************************)
(* ElevatedHelperWorker.terminate, called on the UI thread                 *)
(***************************************************************************)
\* terminate() of worker w.  GetExitCodeProcess on a handle that was
\* already released either fails (nothing more is done) or answers for
\* whatever the handle value names by then (recycled = TRUE): the handle
\* is then released a second time.  super().terminate() ends a running
\* thread where it stands (killed = TRUE) or leaves it running.
Terminate(w, recycled, killed) ==
    LET t == threads[w]
        h == handles[w]
        dies == IsRunning(w) /\ killed
        kill == IF dies THEN [t EXCEPT !.pc = "killed"] ELSE t
    IN  /\ channels' = [channels EXCEPT ![OutputFile(w)] = IF dies THEN LeftBehind(@) ELSE @]
        /\ IF ~t.process
           THEN /\ threads' = [threads EXCEPT ![w] = Settle(kill)]
                /\ UNCHANGED <<handles, helpers>>
           ELSE IF h.state = "open"
           THEN /\ helpers' = [helpers EXCEPT ![w] =
                                  IF @.state = "running" THEN Exited(@, "killed", 0)
                                  ELSE Unwatched(@)]
                /\ handles' = [handles EXCEPT ![w].state = "closed"]
                /\ threads' = [threads EXCEPT ![w] = Settle([kill EXCEPT !.process = FALSE])]
           ELSE /\ handles' = [handles EXCEPT ![w].used_after_release = TRUE,
                                              ![w].double_release = @ \/ recycled]
                /\ threads' = [threads EXCEPT ![w] =
                                  Settle(IF recycled THEN [kill EXCEPT !.process = FALSE]
                                         ELSE kill)]
                /\ UNCHANGED helpers

\* the terminate() call of _cleanup_worker and the first one of closeEvent
UiTerminate ==
    /\ ui.pc \in {"cleanup_terminate", "close_terminate"}
    /\ \E recycled, killed \in BOOLEAN : Terminate(worker, recycled, killed)
    /\ ui' = [ui EXCEPT
                !.pc = IF ui.pc = "cleanup_terminate" THEN "cleanup_wait" ELSE "close_wait1",
                !.terminate_calls = IF ui.pc = "cleanup_terminate" THEN @ ELSE @ + 1]
    /\ UNCHANGED <<call, env, tool, operation_in_progress, closing, worker, port_pairs, toolbar,
                   dismissed>>

\* wait(1000) of _cleanup_worker returns, finished or not, and
\* _execute_command goes on to start the new worker
CleanupWaitReturn ==
    /\ ui.pc = "cleanup_wait"
    /\ StartWorker(threads, ui.command, ui.callback, ui.timeout)
    /\ ui' = IdleUi
    /\ UNCHANGED <<call, env, tool, operation_in_progress, closing, port_pairs, toolbar, dismissed,
                   helpers, channels>>

\* the toolbar's Close button, connected to accept(): the dialog is hidden
\* and exec() returns; closeEvent is not called, the dialog object and its
\* connections stay
CloseClicked ==
    /\ UiFree
    /\ ~dismissed
    /\ dismissed' = TRUE
    /\ UNCHANGED <<call, env, tool, operation_in_progress, closing, worker, port_pairs,
                   toolbar, ui, threads, handles, helpers, channels>>

\* closeEvent up to its first blocking call
CloseEvent ==
    /\ UiFree
    /\ ~dismissed
    /\ closing' = TRUE
    /\ IF worker # 0 /\ IsRunning(worker)
       THEN /\ threads' = Disconnected(threads)
            /\ ui' = [ui EXCEPT !.pc = "close_terminate"]
            /\ UNCHANGED dismissed
       ELSE /\ dismissed' = TRUE
            /\ UNCHANGED <<threads, ui>>
    /\ UNCHANGED <<call, env, tool, operation_in_progress, worker, port_pairs, toolbar,
                   handles, helpers, channels>>

\* wait(2000) returns: True if the thread has finished, and the close is
\* accepted; False on timeout, and terminate() is called a second time
CloseWait1Return ==
    /\ ui.pc = "close_wait1"
    /\ IF IsRunning(worker)
       THEN /\ \E recycled, killed \in BOOLEAN : Terminate(worker, recycled, killed)
            /\ ui' = [ui EXCEPT !.pc = "close_wait2", !.waits = @ + 1,
                                !.terminate_calls = @ + 1]
            /\ UNCHANGED dismissed
       ELSE /\ ui' = IdleUi
            /\ dismissed' = TRUE
            /\ UNCHANGED <<threads, handles, helpers, channels>>
    /\ UNCHANGED <<call, env, tool, operation_in_progress, closing, worker, port_pairs, toolbar>>

\* the final wait without its bound
CloseWaitUnbounded ==
    /\ ui.pc = "close_wait2"
    /\ ~IsRunning(worker)
    /\ ui' = IdleUi
    /\ dismissed' = TRUE
    /\ UNCHANGED <<call, env, tool, operation_in_progress, closing, worker, port_pairs, toolbar,
                   threads, handles, helpers, channels>>

\* wait(1000) returns, finished or not; event.accept()
CloseWait2Return ==
    /\ ui.pc = "close_wait2"
    /\ ui' = IdleUi
    /\ dismissed' = TRUE
    /\ UNCHANGED <<call, env, tool, operation_in_progress, closing, worker, port_pairs, toolbar,
                   threads, handles, helpers, channels>>

(***************************************************************************)
(* ElevatedHelperWorker.run, on the worker's own thread                    *)
(***************************************************************************)
At(w, pc) == IsRunning(w) /\ threads[w].pc = pc

WorkerFrame ==
    UNCHANGED <<call, env, operation_in_progress, closing, worker, port_pairs, toolbar, ui,
                dismissed>>

\* command_result is set and run() heads for its final emit
WithResult(t, result) ==
    [t EXCEPT !.has_result = TRUE, !.result = result, !.pc = "emit"]

\* run() with every installation treated as a development checkout
RunHeadAlwaysFallback(e, dev_mode_fallback, command) ==
    IF e.helper_exists THEN [pc |-> "shellexec", result |-> NoResult]
    ELSE IF dev_mode_fallback THEN [pc |-> "direct", result |-> NoResult]
    ELSE [pc |-> "emit", result |-> RunExcept("FileNotFoundError", command)]

\* lines 400-411 and 486-496 of run(): _get_helper_path in installation e
\* and the branch on it.  With a helper run() goes on to the temp file and
\* ShellExecuteEx; without one it runs the tool directly, or raises
\* FileNotFoundError and goes with the result of the except clause
\* straight to the final emit
RunHead(e, dev_mode_fallback, command) ==
    IF e.helper_exists THEN [pc |-> "shellexec", result |-> NoResult]
    ELSE IF ~e.frozen /\ dev_mode_fallback THEN [pc |-> "direct", result |-> NoResult]
    ELSE [pc |-> "emit", result |-> RunExcept("FileNotFoundError", command)]

\* the head of run() (dev_mode_fallback keeps its default True), then
\* tempfile.NamedTemporaryFile(delete=False): a fresh empty file, or an
\* OSError that the except Exception clause turns into a result
GetHelperPath(w) ==
    /\ At(w, "run")
    /\ IF RunHead(env, TRUE, threads[w].command).pc = "shellexec"
       THEN \/ /\ channels' = [channels EXCEPT ![OutputFile(w)] = EmptyFile]
               /\ threads' = [threads EXCEPT ![w].pc = "shellexec"]
            \/ /\ threads' = [threads EXCEPT ![w] =
                                 WithResult(@, RunExcept("OSError", @.command))]
               /\ UNCHANGED channels
       ELSE /\ threads' = [threads EXCEPT ![w] =
                LET head == RunHead(env, TRUE, @.command)
                IN  IF head.pc = "direct" THEN [@ EXCEPT !.pc = "direct"]
                    ELSE WithResult(@, head.result)]
            /\ UNCHANGED channels
    /\ UNCHANGED <<handles, helpers>>
    /\ UNCHANGED tool
    /\ WorkerFrame

\* the development fallback without its return: run() goes on to the
\* final emit
ExecuteDirectNoReturn(w) ==
    /\ At(w, "direct")
    /\ \E outcome \in ToolRuns(tool, threads[w].command, TRUE) :
          /\ tool' = IF env.setupc_exists
                     THEN ToolAfter(tool, threads[w].command, TRUE, outcome) ELSE tool
          /\ threads' = [threads EXCEPT ![w] =
             [@ EXCEPT !.has_result = TRUE,
                       !.result = ExecuteDirectCommand(env.setupc_exists,
                                                       threads[w].command, outcome),
                       !.signal = IF threads[w].connected = "connected"
                                  THEN "queued" ELSE "unheard",
                       !.emits = @ + 1,
                       !.pc = "emit"]]
    /\ UNCHANGED <<handles, helpers, channels>>
    /\ WorkerFrame

\* the development fallback: the tool run directly, the result emitted
\* at once, and run() returns
ExecuteDirect(w) ==
    /\ At(w, "direct")
    /\ \E outcome \in ToolRuns(tool, threads[w].command, TRUE) :
          /\ tool' = IF env.setupc_exists
                     THEN ToolAfter(tool, threads[w].command, TRUE, outcome) ELSE tool
          /\ threads' = [threads EXCEPT ![w] =
             [@ EXCEPT !.has_result = TRUE,
                       !.result = ExecuteDirectCommand(env.setupc_exists,
                                                       threads[w].command, outcome),
                       !.signal = IF threads[w].connected = "connected"
                                  THEN "queued" ELSE "unheard",
                       !.emits = @ + 1,
                       !.pc = "finishing"]]
    /\ UNCHANGED <<handles, helpers, channels>>
    /\ WorkerFrame

\* the early returns of _execute_elevated_command
Returned(t, return_code) == [t EXCEPT !.return_code = return_code, !.pc = "read"]

\* ShellExecuteEx with the runas verb: refused by the user (1223); failed
\* otherwise, or succeeded without a process handle (both return -1); or
\* a process launched
ShellExecute(w) ==
    /\ At(w, "shellexec")
    /\ \/ /\ threads' = [threads EXCEPT ![w] =
                            Returned(@, ElevatedReturnCode("denied", 0))]
          /\ UNCHANGED <<handles, helpers>>
       \/ /\ \E cause \in {"launch_failed", "no_handle"} :
                threads' = [threads EXCEPT ![w] =
                               Returned(@, ElevatedReturnCode(cause, 0))]
          /\ UNCHANGED <<handles, helpers>>
       \/ /\ threads' = [threads EXCEPT ![w].hProcess = TRUE, ![w].pc = "store"]
          /\ handles' = [handles EXCEPT ![w].state = "open"]
          /\ helpers' = [helpers EXCEPT ![w] =
                [state |-> "running", phase |-> "start", exit_code |-> 0,
                 command |-> HelperArgvCommand(threads[w].command)]]
    /\ UNCHANGED channels
    /\ UNCHANGED tool
    /\ WorkerFrame

\* self._process = sei.hProcess
StoreHandle(w) ==
    /\ At(w, "store")
    /\ threads' = [threads EXCEPT ![w].process = TRUE, ![w].pc = "wait"]
    /\ UNCHANGED <<handles, helpers, channels>>
    /\ UNCHANGED tool
    /\ WorkerFrame

\* CloseHandle(sei.hProcess)
CloseHandle(h) ==
    IF h.state = "open" THEN [h EXCEPT !.state = "closed"]
    ELSE [h EXCEPT !.double_release = TRUE, !.used_after_release = TRUE]

\* WaitForSingleObject with no bound: it returns when the process has
\* exited
WaitForHelperUnbounded(w) ==
    /\ At(w, "wait")
    /\ handles[w].state # "open" \/ helpers[w].state # "running"
    /\ handles' = [handles EXCEPT ![w].used_after_release = @ \/ handles[w].state # "open"]
    /\ threads' = [threads EXCEPT ![w].pc = "getexit"]
    /\ UNCHANGED <<helpers, channels, tool>>
    /\ WorkerFrame

\* WaitForSingleObject(sei.hProcess, timeout + 30 s): the process has
\* exited, or the wait times out with the process still running and the
\* handle is closed.  On a handle terminate() has released meanwhile the
\* call may answer either way.
WaitForHelper(w) ==
    /\ At(w, "wait")
    /\ LET released == handles[w].state # "open"
           timed_out ==
              /\ handles' = [handles EXCEPT ![w] = CloseHandle(@)]
              /\ helpers' = [helpers EXCEPT ![w] = Unwatched(@)]
              /\ threads' = [threads EXCEPT ![w] =
                                Returned(@, ElevatedReturnCode("wait_timeout", 0))]
           signalled ==
              /\ handles' = [handles EXCEPT ![w].used_after_release = @ \/ released]
              /\ threads' = [threads EXCEPT ![w].pc = "getexit"]
              /\ UNCHANGED helpers
       IN  \/ (released \/ helpers[w].state = "running") /\ timed_out
           \/ (released \/ helpers[w].state # "running") /\ signalled
    /\ UNCHANGED channels
    /\ UNCHANGED tool
    /\ WorkerFrame

\* GetExitCodeProcess and CloseHandle; on a released handle the query fails
GetExitCode(w) ==
    /\ At(w, "getexit")
    /\ handles' = [handles EXCEPT ![w] = CloseHandle(@)]
    /\ \/ /\ handles[w].state = "open"
          /\ threads' = [threads EXCEPT ![w] =
                            Returned(@, ElevatedReturnCode("exited", helpers[w].exit_code))]
       \/ threads' = [threads EXCEPT ![w] =
                         Returned(@, ElevatedReturnCode("exit_unreadable", 0))]
    /\ helpers' = [helpers EXCEPT ![w] = Unwatched(@)]
    /\ UNCHANGED channels
    /\ UNCHANGED tool
    /\ WorkerFrame

\* the text read from the output file ("" if it is missing or
\* unreadable), json.loads and the CommandResult built from it, and the
\* finally clause: os.unlink(output_file).  The locals of run() that are
\* not read again are cleared.
ReadOutput(w) ==
    /\ At(w, "read")
    /\ \E stdout \in {channels[OutputFile(w)]} \cup (IF channels[OutputFile(w)].kind = "nofile" THEN {} ELSE {EmptyFile}) :
          threads' = [threads EXCEPT ![w] =
             [@ EXCEPT !.has_result = TRUE,
                       !.result = HelperResponseResult(stdout, threads[w].return_code,
                                                       threads[w].command),
                       !.return_code = 0,
                       !.hProcess = FALSE,
                       !.pc = "emit"]]
    /\ channels' = [channels EXCEPT ![OutputFile(w)] = NoFile]
    /\ UNCHANGED <<handles, helpers>>
    /\ UNCHANGED tool
    /\ WorkerFrame

\* self.result = command_result; self.command_finished.emit(command_result)
EmitResult(w) ==
    /\ At(w, "emit")
    /\ threads' = [threads EXCEPT ![w] =
          [@ EXCEPT !.signal = IF threads[w].connected = "connected"
                               THEN "queued" ELSE "unheard",
                    !.emits = @ + 1,
                    !.pc = "finishing"]]
    /\ UNCHANGED <<handles, helpers, channels>>
    /\ UNCHANGED tool
    /\ WorkerFrame

\* run() returns and the thread finishes
FinishThread(w) ==
    /\ At(w, "finishing")
    /\ threads' = [threads EXCEPT ![w] = Settle([@ EXCEPT !.pc = "finished"])]
    /\ UNCHANGED <<handles, helpers, channels>>
    /\ UNCHANGED tool
    /\ WorkerFrame

(***************************************************************************)
(* The elevated helper process (main of port_manager_helper.py)            *)
(***************************************************************************)
HelperAt(w, phase) == helpers[w].state = "running" /\ helpers[w].phase = phase

\* what a helper leaves: its exit code, which only an open handle can
\* query
Leaves(w, exit_code) ==
    Exited(helpers[w], "exited", IF handles[w].state = "open" THEN exit_code ELSE 0)

\* what a write puts in the output file of worker w
Puts(w, file) ==
    IF \E v \in Workers : OutputFile(v) = OutputFile(w) /\ Reads(threads[v])
    THEN file ELSE StaleFile

HelperFrame ==
    UNCHANGED <<call, env, operation_in_progress, closing, worker, port_pairs, toolbar, ui,
                dismissed, threads, handles>>

\* execute_setupc_command(setupc_path, command, working_dir, timeout),
\* then open(output_file, 'w') and f.write(output_json): the record is in
\* the file, and the exit status is decided; if the file cannot be opened
\* the -12 record goes to stdout only and the helper exits 1
HelperExecute(w) ==
    /\ HelperAt(w, "start")
    /\ \/ \E outcome \in ToolRuns(tool, helpers[w].command, FALSE) :
             LET record == ExecuteSetupcCommand(env.setupc_exists, helpers[w].command,
                                                outcome)
             IN  /\ channels' = [channels EXCEPT ![OutputFile(w)] = Puts(w, ObjectFile(ToDict(record)))]
                 /\ helpers' = [helpers EXCEPT
                                   ![w].phase = "written",
                                   ![w].exit_code = IF record.success THEN 0 ELSE 1]
                 /\ tool' = IF env.setupc_exists
                            THEN ToolAfter(tool, helpers[w].command, FALSE, outcome)
                            ELSE tool
       \/ /\ helpers' = [helpers EXCEPT ![w] = Leaves(w, 1)]
          /\ UNCHANGED <<channels, tool>>
    /\ HelperFrame

\* print(output_json); sys.exit(0 if result.success else 1)
HelperExit(w) ==
    /\ HelperAt(w, "written")
    /\ helpers' = [helpers EXCEPT ![w] = Leaves(w, @.exit_code)]
    /\ UNCHANGED channels
    /\ UNCHANGED tool
    /\ HelperFrame

\* the except Exception clause of main: the -99 record, serialized or
\* hand-built, written to the file; sys.exit(99)
HelperCatastrophic(w) ==
    /\ helpers[w].state = "running"
    /\ \E rec \in {CrashRecord, HandBuiltCrashRecord} :
          channels' = [channels EXCEPT ![OutputFile(w)] = Puts(w, ObjectFile(rec))]
    /\ helpers' = [helpers EXCEPT ![w] = Leaves(w, 99)]
    /\ UNCHANGED tool
    /\ HelperFrame

\* the helper process dies without running its handlers: before it has
\* opened the file, or part-way through writing it
HelperDie(w) ==
    /\ helpers[w].state = "running"
    /\ helpers' = [helpers EXCEPT ![w] = Leaves(w, 1)]
    /\ \/ UNCHANGED channels
       \/ /\ helpers[w].phase = "start"
          /\ channels' = [channels EXCEPT ![OutputFile(w)] = Puts(w, GarbageFile)]
    /\ UNCHANGED tool
    /\ HelperFrame

\* another process of the user overwrites the temp file with JSON text
\* that is not an object
ForeignWrite(w) ==
    /\ channels[OutputFile(w)].kind # "nofile"
    /\ At(w, "wait") \/ At(w, "read")
    /\ channels' = [channels EXCEPT ![OutputFile(w)] = NonObjectFile]
    /\ UNCHANGED helpers
    /\ UNCHANGED tool
    /\ HelperFrame

(***************************************************************************)
(* Specification                                                           *)
(***************************************************************************)
UiStep ==
    \/ RequestList
    \/ SafeLoadExistingPairs
    \/ RequestCreate
    \/ \E i \in 1..Len(port_pairs) : RequestRemove(i)
    \/ \E w \in Workers : Deliver(w)
    \/ \E w \in Workers : DropSignal(w)
    \/ CloseClicked
    \/ CloseEvent
    \/ UiTerminate
    \/ CleanupWaitReturn
    \/ CloseWait1Return
    \/ CloseWait2Return

WorkerStep(w) ==
    \/ GetHelperPath(w)
    \/ ExecuteDirect(w)
    \/ ShellExecute(w)
    \/ StoreHandle(w)
    \/ WaitForHelper(w)
    \/ GetExitCode(w)
    \/ ReadOutput(w)
    \/ EmitResult(w)
    \/ FinishThread(w)

HelperStep(w) ==
    \/ HelperExecute(w)
    \/ HelperExit(w)
    \/ HelperCatastrophic(w)
    \/ HelperDie(w)
    \/ ForeignWrite(w)

Next ==
    \/ UiStep
    \/ \E w \in Workers : WorkerStep(w)
    \/ \E w \in Workers : HelperStep(w)

Spec == Init /\ [][Next]_vars

\* closeEvent runs on the UI thread: each of its calls returns and the next
\* one is made; terminate() returns, and each wait() is bounded by its
\* timeout.  Nothing is assumed of worker threads and helper processes.
FairSpec ==
    /\ Spec
    /\ WF_vars(UiTerminate)
    /\ WF_vars(CloseWait1Return)
    /\ WF_vars(CloseWait2Return)

\* a step of a worker thread, of the event loop delivering a completion
\* signal, or a return of a call the UI thread is blocked in
Progress ==
    \/ \E w \in Workers : WorkerStep(w) \/ Deliver(w)
    \/ UiTerminate
    \/ CleanupWaitReturn
    \/ CloseWait1Return
    \/ CloseWait2Return

\* the states in which such a step can be taken: a worker thread is
\* running (every step of run() can be taken where it stands: the wait
\* for the helper is bounded), a completion signal is queued with the UI
\* thread free, its handler being able to run within the workers
\* modelled, or the UI thread is inside terminate() or wait()
CanProgress ==
    \/ \E w \in Workers :
          \/ IsRunning(w)
          \/ /\ UiFree
             /\ threads[w].signal = "queued"
             /\ \/ closing
                \/ threads[w].callback = "list"
                \/ ~threads[w].result.success
                \/ ~env.setupc_exists
                \/ CanStart
    \/ ~UiFree

\* the scheduling of the threads: a call the UI thread is blocked in
\* returns (terminate() returns, each wait() is bounded), and worker
\* threads, the event loop and the UI thread do not all stand still for
\* ever while one of them can go on: weak fairness of Progress, its
\* enabling condition written out as CanProgress.  Nothing is assumed of
\* helper processes or of the user.
LiveSpec ==
    /\ Spec
    /\ WF_vars(UiTerminate \/ CleanupWaitReturn \/ CloseWait1Return \/ CloseWait2Return)
    /\ []<>(~CanProgress) \/ []<><<Progress>>_vars

(***************************************************************************)
(* The functions of the pipeline, called one at a time on inputs drawn     *)
(* from bounded sets: call holds the function, its input and its result.   *)
(***************************************************************************)
\* the commands the dialog passes to its worker
Commands == {ListCommand, InstallCommand(VIRTUAL_PORT_RANGE_START,
                                         VIRTUAL_PORT_RANGE_START + 1),
             RemoveCommand(0)}

\* what the output file can hold when run() reads it: nothing, text that
\* is no JSON or no JSON object, or a record the helper wrote
ChannelContents ==
    {NoFile, EmptyFile, GarbageFile, NonObjectFile,
     ObjectFile(CrashRecord), ObjectFile(HandBuiltCrashRecord)}
    \cup {ObjectFile(ToDict(ExecuteSetupcCommand(e, HelperArgvCommand(ListCommand), o))) :
            e \in BOOLEAN, o \in ToolOutcomes(ListCommand)}

\* the exit codes of the helper process: sys.exit(0 if result.success
\* else 1), sys.exit(99)
HelperExitCodes == {0, 1, 99}

\* run() past the temp file: _execute_elevated_command returning for one
\* of its causes, the file holding stdout
ElevatedInputs ==
    {[cause |-> c, exit_code |-> x, stdout |-> f, command |-> ListCommand] :
        c \in ElevatedCauses \ {"exited"}, x \in {0}, f \in ChannelContents}
    \cup {[cause |-> "exited", exit_code |-> x, stdout |-> f, command |-> ListCommand] :
            x \in HelperExitCodes, f \in ChannelContents}

\* lines 417-476 of run(): the elevated execution, the read and the parse
RunElevated(input) ==
    HelperResponseResult(input.stdout,
                         ElevatedReturnCode(input.cause, input.exit_code),
                         input.command)

\* the head of run() in any installation, with either value of the flag
RunHeadInputs ==
    {[env |-> e, dev_mode_fallback |-> f, command |-> c] :
        e \in [setupc_exists : BOOLEAN, frozen : BOOLEAN, helper_exists : BOOLEAN],
        f \in BOOLEAN, c \in Commands}

ApplyRunHead ==
    /\ call.fn = "run_head"
    /\ ~call.done
    /\ call' = [call EXCEPT !.done = TRUE,
                            !.result = RunHead(call.input.env, call.input.dev_mode_fallback,
                                               call.input.command)]
    /\ UNCHANGED <<env, tool, operation_in_progress, closing, worker, port_pairs, toolbar, ui,
                   dismissed, threads, handles, helpers, channels>>

\* _execute_direct_command with the tool present or not, on every outcome
\* of subprocess.run
DirectInputs ==
    UNION {{[setupc_exists |-> e, command |-> c, outcome |-> o] :
              e \in BOOLEAN, o \in ToolOutcomes(c)} : c \in Commands}

ApplyExecuteDirect ==
    /\ call.fn = "_execute_direct_command"
    /\ ~call.done
    /\ call' = [call EXCEPT !.done = TRUE,
                            !.result = ExecuteDirectCommand(call.input.setupc_exists,
                                                            call.input.command,
                                                            call.input.outcome)]
    /\ UNCHANGED <<env, tool, operation_in_progress, closing, worker, port_pairs, toolbar, ui,
                   dismissed, threads, handles, helpers, channels>>

\* the command lines main() of the helper is run with: the tool path and
\* the command, or less; a timeout argument or none; --output-file with
\* its file name, without it, or absent; options before or after the
\* timeout; with and without an unexpected exception
MainInputs ==
    LET positional == {<<>>, <<<<"s", "e", "t", "u", "p", "c">>>>,
                       <<<<"s", "e", "t", "u", "p", "c">>, <<"l", "i", "s", "t">>>>,
                       <<<<"s", "e", "t", "u", "p", "c">>, <<"\"">>>>}
        timeouts   == {<<>>, <<<<"a", "b", "c">>>>, <<<<"-", "5">>>>}
                      \cup {<<Decimal(v)>> : v \in {0, 1, 300, 301}}
        options    == {<<>>, <<OutputFileOption>>, <<OutputFileOption, <<"o", "u", "t">>>>}
        arguments  == {p \o t \o o : p \in positional, t \in timeouts, o \in options}
                      \cup {p \o o \o t : p \in positional, t \in timeouts, o \in options}
    IN  {[args |-> a, writable |-> wr, setupc_exists |-> e, fault |-> f, outcome |-> o] :
            a \in arguments, wr \in BOOLEAN, e \in BOOLEAN, f \in BOOLEAN,
            o \in ToolOutcomes(ListCommand)}

ApplyHelperMain ==
    /\ call.fn = "main"
    /\ ~call.done
    /\ call' = [call EXCEPT !.done = TRUE, !.result = HelperMain(call.input)]
    /\ UNCHANGED <<env, tool, operation_in_progress, closing, worker, port_pairs, toolbar, ui,
                   dismissed, threads, handles, helpers, channels>>

\* the listings parse_port_list is called with: up to MaxLines lines, in
\* any order and with repetitions, out of
ParseInputs ==
    LET lines == {
        \* the two lines of one pair with their parameters
        <<"C", "N", "C", "A", "0", " ", "P", "o", "r", "t", "N", "a", "m", "e", "=", "C", "O", "M", "1", "5", "0", ",", "E", "m", "u", "B", "R", "=", "y", "e", "s">>,
        <<"C", "N", "C", "B", "0", " ", "P", "o", "r", "t", "N", "a", "m", "e", "=", "C", "O", "M", "1", "5", "1", ",", "E", "m", "u", "B", "R", "=", "y", "e", "s">>,
        \* a second pair, its A side without parameters
        <<"C", "N", "C", "B", "1", " ", "P", "o", "r", "t", "N", "a", "m", "e", "=", "C", "O", "M", "1", "5", "3">>,
        <<"C", "N", "C", "A", "1">>,
        \* the A side of pair 0 once more, without a port name
        <<"C", "N", "C", "A", "0", " ", "E", "m", "u", "B", "R", "=", "y", "e", "s">>,
        \* leading zeros, signs, and the same number 7 written plainly inside blanks
        <<"C", "N", "C", "A", "0", "0", "7", " ", "P", "o", "r", "t", "N", "a", "m", "e", "=", "C", "O", "M", "7">>,
        <<"C", "N", "C", "B", "+", "5", " ", "P", "o", "r", "t", "N", "a", "m", "e", "=", "C", "O", "M", "5">>,
        <<"C", "N", "C", "A", "-", "5", " ", "P", "o", "r", "t", "N", "a", "m", "e", "=", "C", "O", "M", "9">>,
        <<" ", " ", "C", "N", "C", "B", "7", " ", "P", "o", "r", "t", "N", "a", "m", "e", "=", "C", "O", "M", "8", "\t">>,
        \* a blank line, a prompt echo, text of the tool, and malformed identifiers
        <<" ">>,
        <<"c", "o", "m", "m", "a", "n", "d", ">", " ", "l", "i", "s", "t">>,
        <<"C", "o", "m", "D", "B", ":", " ", "C", "O", "M", "8", " ", "i", "n", " ", "u", "s", "e">>,
        <<"C", "N", "C", "A">>,
        <<"C", "N", "C", "X", "9", " ", "P", "o", "r", "t", "N", "a", "m", "e", "=", "C", "O", "M", "1">>,
        <<"C", "N", "C", "A", "0", "x", " ", "P", "o", "r", "t", "N", "a", "m", "e", "=", "C", "O", "M", "2">>}
    IN  UNION {[1..n -> lines] : n \in 0..MaxLines}

ApplyParsePortList ==
    /\ call.fn = "parse_port_list"
    /\ ~call.done
    /\ call' = [call EXCEPT !.done = TRUE, !.result = ParsePortList(call.input)]
    /\ UNCHANGED <<env, tool, operation_in_progress, closing, worker, port_pairs, toolbar, ui,
                   dismissed, threads, handles, helpers, channels>>

\* the port_pairs _get_port_availability is called with: up to MaxUsed
\* port names COM<n>, n running from a base around either end of the
\* range in steps of 1, 2 or 3, two to a pair, and with or without one
\* more pair whose names are no COM numbers; and the two pairs
\* COM150/COM151 and COM160/COM161
AvailabilityInputs ==
    LET Named(side, i, name) == [Port(PortIdent(side, i)) EXCEPT !.port_name = name]
        NameAt(base, step, count, j) ==
            IF j < count THEN COM \o Decimal(base + j * step) ELSE <<>>
        Pairs(base, step, count) ==
            [i \in 1..((count + 1) \div 2) |->
                PortPair(i - 1,
                         Named("A", i - 1, NameAt(base, step, count, 2 * i - 2)),
                         Named("B", i - 1, NameAt(base, step, count, 2 * i - 1)),
                         "Active")]
        unnumbered == PortPair(60, Named("A", 60, COM \o <<"x">>),
                                   Named("B", 60, <<"L", "P", "T", "1">>), "Active")
    IN  {Pairs(base, step, count) \o extra :
            base \in (VIRTUAL_PORT_RANGE_START - 2)..(VIRTUAL_PORT_RANGE_START + 2),
            step \in 1..3, count \in 0..MaxUsed, extra \in {<<>>, <<unnumbered>>}}
        \cup {Pairs(150, 1, 2) \o [i \in 1..1 |-> Pairs(160, 1, 2)[1]]}

ApplyGetPortAvailability ==
    /\ call.fn = "_get_port_availability"
    /\ ~call.done
    /\ call' = [call EXCEPT !.done = TRUE, !.result = GetPortAvailability(call.input)]
    /\ UNCHANGED <<env, tool, operation_in_progress, closing, worker, port_pairs, toolbar, ui,
                   dismissed, threads, handles, helpers, channels>>

ApplyRunElevated ==
    /\ call.fn = "run_elevated"
    /\ ~call.done
    /\ call' = [call EXCEPT !.done = TRUE, !.result = RunElevated(call.input)]
    /\ UNCHANGED <<env, tool, operation_in_progress, closing, worker, port_pairs, toolbar, ui,
                   dismissed, threads, handles, helpers, channels>>

PureInit ==
    /\ \/ \E i \in ElevatedInputs :
             call = [fn |-> "run_elevated", input |-> i, done |-> FALSE, result |-> NoResult]
       \/ \E i \in DirectInputs :
             call = [fn |-> "_execute_direct_command", input |-> i, done |-> FALSE,
                     result |-> NoResult]
       \/ \E i \in MainInputs :
             call = [fn |-> "main", input |-> i, done |-> FALSE, result |-> NoResult]
       \/ \E i \in RunHeadInputs :
             call = [fn |-> "run_head", input |-> i, done |-> FALSE, result |-> NoResult]
       \/ \E i \in AvailabilityInputs :
             call = [fn |-> "_get_port_availability", input |-> i, done |-> FALSE,
                     result |-> NoResult]
       \/ \E i \in ParseInputs :
             call = [fn |-> "parse_port_list", input |-> i, done |-> FALSE,
                     result |-> NoResult]
    /\ env = [setupc_exists |-> TRUE, frozen |-> TRUE, helper_exists |-> TRUE]
    /\ tool = ListingEmpty
    /\ Idle

PureNext ==
    \/ ApplyRunElevated
    \/ ApplyRunHead
    \/ ApplyExecuteDirect
    \/ ApplyHelperMain
    \/ ApplyParsePortList
    \/ ApplyGetPortAvailability

PureSpec == PureInit /\ [][PureNext]_vars

(***************************************************************************)
(* Properties                                                              *)
(***************************************************************************)
\* a list, create or remove request arrives
Request ==
    \/ RequestList
    \/ SafeLoadExistingPairs
    \/ RequestCreate
    \/ \E i \in 1..Len(port_pairs) : RequestRemove(i)

\* no worker is created in the step
NoWorkerCreated ==
    /\ worker' = worker
    /\ \A w \in Workers : threads[w].pc = "unborn" => threads'[w].pc = "unborn"

\* C1: a request made while the in-progress flag or the closing flag is
\* set starts no worker, launches no process, queues nothing and leaves
\* the in-progress flag, the closing flag, the worker reference and the
\* pair set as they were; the closing flag, once set, stays set, and from
\* then on no worker is created.
C1_BusyRequestIsNoOp ==
    [][/\ (Request /\ (operation_in_progress \/ closing)) =>
             UNCHANGED <<operation_in_progress, closing, worker, port_pairs, threads,
                         handles, helpers, channels, ui>>
       /\ closing => (closing' /\ NoWorkerCreated)]_vars

\* a create request was dropped while a list operation was running: the
\* toolbar shows it, the worker is still the list worker
C1_Witness ==
    /\ operation_in_progress
    /\ ~closing
    /\ worker # 0
    /\ threads[worker].callback = "list"
    /\ toolbar.status = "Creating..."

\* C2: at most one elevated helper process started by the dialog is alive
\* at any time.
C2_OneHelperAlive ==
    Cardinality({w \in Workers : helpers[w].state = "running"}) <= 1

\* C3: once the closing flag is set, a completion handler that fires
\* changes neither the pair set nor the in-progress flag nor the toolbar,
\* and starts nothing.
C3_HandlerInertWhileClosing ==
    [][\A w \in Workers :
          (closing /\ Deliver(w)) =>
             /\ UNCHANGED <<port_pairs, operation_in_progress, toolbar, ui, handles,
                            helpers, channels>>
             /\ NoWorkerCreated]_vars

\* a handler has fired after closeEvent set the flag, and the in-progress
\* flag of the operation is still set
C3_Witness ==
    /\ closing
    /\ operation_in_progress
    /\ \E w \in Workers : threads[w].signal = "delivered"

\* C4: a list completion handled with the closing flag clear clears the
\* in-progress flag; on success the pair set becomes the parser's output
\* for result.output, on failure the pair set stays and the status shows
\* the error.
C4_ListCompletion ==
    [][\A w \in Workers :
          (Deliver(w) /\ ~closing /\ threads[w].callback = "list") =>
             /\ ~operation_in_progress'
             /\ IF threads[w].result.success
                THEN port_pairs' = ParsePortList(threads[w].result.output)
                ELSE /\ port_pairs' = port_pairs
                     /\ toolbar'.status = ErrorStatus(threads[w].result)]_vars

\* the second operation was a list that succeeded: the pair set is the one
\* pair of its listing
C4_Witness ==
    /\ ~closing
    /\ ~operation_in_progress
    /\ worker = 2
    /\ threads[2].callback = "list"
    /\ threads[2].signal = "delivered"
    /\ threads[2].result.success
    /\ port_pairs = ParsePortList(ListingOnePair)

\* C5: a successful create or remove completion handled with the closing
\* flag clear issues a list in the same step, the in-progress flag set
\* again, and the elevated process of the create or remove has finished by
\* then.
C5_FollowUpAfterProcessEnd ==
    [][\A w \in Workers :
          (/\ Deliver(w)
           /\ ~closing
           /\ threads[w].callback \in {"create", "remove"}
           /\ threads[w].result.success) =>
             /\ operation_in_progress'
             /\ \/ worker' # worker /\ threads'[worker'].callback = "list"
                \/ ui'.pc = "cleanup_terminate" /\ ui'.callback = "list"
             /\ helpers[w].state # "running"]_vars

\* C6: a failed create or remove completion handled with the closing flag
\* clear leaves the pair set, starts nothing, shows the error and clears
\* the in-progress flag.
C6_MutationFailure ==
    [][\A w \in Workers :
          (/\ Deliver(w)
           /\ ~closing
           /\ threads[w].callback \in {"create", "remove"}
           /\ ~threads[w].result.success) =>
             /\ port_pairs' = port_pairs
             /\ ~operation_in_progress'
             /\ ~closing'
             /\ toolbar'.status = ErrorStatus(threads[w].result)
             /\ ui' = ui
             /\ NoWorkerCreated]_vars

\* a create has failed and its handler has cleared the flag
C6_Witness ==
    /\ ~closing
    /\ ~operation_in_progress
    /\ \E w \in Workers :
          /\ threads[w].callback = "create"
          /\ threads[w].signal = "delivered"
          /\ ~threads[w].result.success
          /\ toolbar.status = ErrorStatus(threads[w].result)

\* closeEvent is between setting the flag and accepting the close
InCloseEvent == ui.pc \in {"close_terminate", "close_wait1", "close_wait2"}

\* C7: closeEvent sets the closing flag before anything else, calls
\* terminate() at most twice and waits at most twice, and returns whatever
\* the worker does.
C7_CloseTerminates ==
    /\ [](InCloseEvent => closing)
    /\ [](ui.terminate_calls <= 2 /\ ui.waits <= 2)
    /\ [](InCloseEvent => <>dismissed)

\* closeEvent has returned and the worker thread is still running
C7_Witness ==
    /\ closing
    /\ dismissed
    /\ worker # 0
    /\ IsRunning(worker)

\* C8: the process handle is released at most once and is not used after
\* it has been released.
C8_HandleSafe ==
    \A w \in Workers : ~handles[w].double_release /\ ~handles[w].used_after_release

\* the fields of a CommandResult and what they hold
WellFormed(result) ==
    /\ DOMAIN result =
          {"success", "output", "error", "return_code", "execution_time", "command"}
    /\ result.success \in BOOLEAN
    /\ result.return_code \in Int
    /\ result.command.op \in {"list", "install", "remove", ""}

\* C9: a run of the launcher emits at most once, has emitted exactly once
\* when it returns, and what it emits is a well-formed CommandResult.
C9_OneResult ==
    \A w \in Workers :
       /\ threads[w].emits <= 1
       /\ threads[w].pc \in {"finishing", "finished", "deleted"} => threads[w].emits = 1
       /\ threads[w].pc \in {"run", "direct", "shellexec", "store", "wait", "getexit",
                             "read", "emit"} => threads[w].emits = 0
       /\ threads[w].pc = "emit" => threads[w].has_result
       /\ threads[w].has_result => WellFormed(threads[w].result)

\* a launcher that gave up waiting has returned, having emitted once, and
\* its helper is still running
C9_Witness ==
    \E w \in Workers :
       /\ threads[w].pc = "finished"
       /\ threads[w].emits = 1
       /\ helpers[w].state = "running"

\* the error texts of the failures of the pipeline itself
PipelineErrors ==
    {"Port Manager helper not found", "Failed to launch elevated helper",
     "Administrator privileges required (UAC prompt was denied)",
     "Helper process failed with exit code", "Invalid response from helper",
     "Dev mode execution failed", "Command timed out", "setupc.exe not found",
     "Helper crashed", "Critical failure"}

\* the sentinel codes of the two modules
SentinelCodes == {-1, -2, -3, -4, -10, -11, -12, -99}

\* C10: a result emitted for a failure of the pipeline itself has
\* success false and one of the negative sentinel codes.
C10_SentinelCodes ==
    \A w \in Workers :
       (threads[w].signal = "queued" /\ threads[w].result.error \in PipelineErrors) =>
          /\ ~threads[w].result.success
          /\ threads[w].result.return_code \in SentinelCodes


\* C11: the result reported when the launcher's own wait expires (and the
\* file holds no record) has a return_code that is neither the helper's
\* code for a tool timeout nor the code of another launcher failure.
C11_WaitTimeoutOwnCode ==
    (/\ call.fn = "run_elevated"
     /\ call.done
     /\ call.input.cause = "wait_timeout"
     /\ call.input.stdout.kind \in {"nofile", "empty", "garbage"}) =>
       /\ call.result.return_code #
             ExecuteSetupcCommand(TRUE, ListCommand,
                [kind |-> "timeout", code |-> 0, stdout |-> ListingEmpty,
                 stderr |-> ""]).return_code
       /\ call.result.return_code \notin
             {ElevatedReturnCode(c, 0) :
                 c \in {"launch_failed", "no_handle", "exit_unreadable"}}

\* C12: a refused elevation is reported with success false, the
\* elevation-denied text and a return_code that no result of a tool that
\* ran and exited non-zero carries.
C12_ElevationDeniedDistinct ==
    (/\ call.fn = "run_elevated"
     /\ call.done
     /\ call.input.cause = "denied"
     /\ call.input.stdout.kind = "empty") =>
       /\ ~call.result.success
       /\ call.result.error = "Administrator privileges required (UAC prompt was denied)"
       /\ \A o \in ToolOutcomes(ListCommand) :
             (o.kind = "exit" /\ o.code # 0) =>
                RunElevated([cause |-> "exited", exit_code |-> 1,
                             stdout |-> ObjectFile(ToDict(ExecuteSetupcCommand(
                                           TRUE, HelperArgvCommand(ListCommand), o))),
                             command |-> ListCommand]).return_code
                   # call.result.return_code

\* C13: a file that is missing, empty or holds no record gives a result
\* with success false whatever the exit code of the helper; text that is
\* no record is carried as the output of the result; success is true only
\* if the file held a record whose success field is true.
C13_ChannelFailures ==
    (call.fn = "run_elevated" /\ call.done) =>
       LET stdout == call.input.stdout
       IN  /\ stdout.kind \in {"nofile", "empty", "garbage", "nonobject"} =>
                  ~call.result.success
           /\ stdout.kind \in {"garbage", "nonobject"} => call.result.output = stdout.raw
           /\ call.result.success =>
                  /\ stdout.kind = "object"
                  /\ "success" \in DOMAIN stdout.obj
                  /\ stdout.obj["success"] = TRUE

\* C14: once a run of the launcher is over (it has emitted its result,
\* or its thread was killed by terminate()), its output file does not
\* exist.
C14_ChannelRemoved ==
    \A w \in Workers :
       threads[w].pc \in {"finishing", "finished", "killed", "deleted"} =>
          channels[OutputFile(w)].kind = "nofile"

C16_DirectOnlyAsFallback ==
    (call.fn = "run_head" /\ call.done) =>
       LET e == call.input.env
           fallback == ~e.helper_exists /\ ~e.frozen /\ call.input.dev_mode_fallback
       IN  /\ call.result.pc = "direct" <=> fallback
           /\ (~e.helper_exists /\ ~fallback) =>
                  /\ call.result.pc = "emit"
                  /\ ~call.result.result.success
                  /\ call.result.result.return_code = -2

\* a packaged application without its helper has gone to the final emit
C16_Witness ==
    /\ call.fn = "run_head"
    /\ call.done
    /\ ~call.input.env.helper_exists
    /\ call.input.env.frozen
    /\ call.input.dev_mode_fallback
    /\ call.result.pc = "emit"

\* C17: every result of the direct-execution fallback says in its error
\* text that the command ran without elevation.
C17_DirectResultsMarked ==
    (call.fn = "_execute_direct_command" /\ call.done) =>
       call.result.error \in {"Command completed (dev mode - no elevation)",
                              "Command failed - may require elevation",
                              "Dev mode execution failed"}

\* C18: a result delivered for a run in which the tool was executed,
\* directly or by the helper, has success true exactly if its return_code
\* is 0; the launcher may find the helper's file as written, or missing
\* or unreadable.
C18_SuccessIffZero ==
    /\ (/\ call.fn = "_execute_direct_command"
        /\ call.done
        /\ call.input.setupc_exists
        /\ call.input.outcome.kind = "exit") =>
          (call.result.success <=> call.result.return_code = 0)
    /\ (/\ call.fn = "main"
        /\ call.done
        /\ call.result.started
        /\ call.input.outcome.kind = "exit") =>
          \A stdout \in {call.result.file, NoFile, EmptyFile} :
             LET delivered ==
                    RunElevated([cause |-> "exited", exit_code |-> call.result.exit_code,
                                 stdout |-> stdout, command |-> ListCommand])
             IN  delivered.success <=> delivered.return_code = 0

\* C19: a result with success true, of the helper or of the direct
\* fallback, has an empty error text.
C19_SuccessHasNoError ==
    /\ (call.fn = "_execute_direct_command" /\ call.done /\ call.result.success) =>
          call.result.error = ""
    /\ (call.fn = "main" /\ call.done /\ call.result.record.success) =>
          call.result.record.error = ""

\* C20: the helper reports each failure cause with success false and the
\* cause's own return_code: fewer than two positional arguments -10, a
\* timeout outside 1..300 -11, a missing tool -2, a command that cannot
\* be tokenized -4, the tool exceeding the timeout -1, another exception
\* -3; for the first four the tool is not started.  Each cause is taken
\* with the checks before it passed, the output file writable and no
\* unexpected exception.
C20_HelperSentinels ==
    (call.fn = "main" /\ call.done /\ call.input.writable /\ ~call.input.fault) =>
       LET args == call.input.args
           r == call.result.record
           parsed == ParseArgv(args, 1, [timeout |-> 30, output_file |-> FALSE])
           IsOption(k) == args[k] = OutputFileOption
                          \/ (k > 1 /\ args[k - 1] = OutputFileOption)
           positional == Cardinality({k \in 1..Len(args) : ~IsOption(k)})
           timeout_given == positional >= 3
           bad_timeout == timeout_given /\ (parsed.timeout < 1 \/ parsed.timeout > 300)
           exists == call.input.setupc_exists
           tokenizable == args[2] # <<"\"">>
           Reports(code) == ~r.success /\ r.return_code = code
       IN  /\ positional < 2 => Reports(-10) /\ ~call.result.started
           /\ (positional >= 2 /\ bad_timeout) => Reports(-11) /\ ~call.result.started
           /\ (positional >= 2 /\ ~bad_timeout /\ ~exists) =>
                  Reports(-2) /\ ~call.result.started
           /\ (positional >= 2 /\ ~bad_timeout /\ exists /\ ~tokenizable) =>
                  Reports(-4) /\ ~call.result.started
           /\ (positional >= 2 /\ ~bad_timeout /\ exists /\ tokenizable
                  /\ call.input.outcome.kind = "timeout") => Reports(-1)
           /\ (positional >= 2 /\ ~bad_timeout /\ exists /\ tokenizable
                  /\ call.input.outcome.kind = "oserror") => Reports(-3)

\* C21: when the helper was given an output file and the file can be
\* written, on the normal, the invalid-timeout and the catastrophic path
\* alike, the record the file holds at exit is the record printed on
\* standard output.
C21_FileEqualsStdout ==
    (/\ call.fn = "main"
     /\ call.done
     /\ Len(call.input.args) >= 2
     /\ ParseArgv(call.input.args, 3, [timeout |-> 30, output_file |-> FALSE]).output_file
     /\ call.input.writable) =>
       /\ call.result.file.kind = "object"
       /\ \A k \in 1..Len(call.result.stdout) :
             call.result.stdout[k] = call.result.file.obj

\* the catastrophic path with a writable output file
C21_Witness ==
    /\ call.fn = "main"
    /\ call.done
    /\ call.input.fault
    /\ call.input.writable
    /\ call.result.exit_code = 99
    /\ call.result.file.kind = "object"
    /\ call.result.file.obj.return_code = -99
    /\ call.result.stdout = <<call.result.file.obj>>

C23_SixFields ==
    (call.fn = "main" /\ call.done) =>
       LET fields == {"success", "output", "error", "return_code", "execution_time",
                      "command"}
       IN  /\ \A k \in 1..Len(call.result.stdout) :
                 DOMAIN call.result.stdout[k] = fields
           /\ call.result.file.kind = "object" =>
                 DOMAIN call.result.file.obj = fields

\* C24: the helper exits with status 0 exactly if the record it emitted
\* has success true.
C24_ExitStatus ==
    (call.fn = "main" /\ call.done) =>
       \A k \in 1..Len(call.result.stdout) :
          call.result.exit_code = 0 <=> call.result.stdout[k].success

\* a tool failure reported with a non-zero exit status
C24_Witness ==
    /\ call.fn = "main"
    /\ call.done
    /\ call.result.started
    /\ call.input.outcome.kind = "exit"
    /\ call.input.outcome.code # 0
    /\ call.result.exit_code = 1
    /\ ~call.result.stdout[1].success

\* C25: the sequence parse returns is strictly ascending by pair number,
\* so it has at most one pair per number, whatever the order and the
\* repetition of the lines.
C25_StrictlyAscending ==
    (call.fn = "parse_port_list" /\ call.done) =>
       \A i \in 1..Len(call.result) : \A j \in 1..Len(call.result) :
          i < j => call.result[i].number < call.result[j].number

\* a listing whose pairs come in descending order, one of them on two lines
C25_Witness ==
    /\ call.fn = "parse_port_list"
    /\ call.done
    /\ Len(call.input) = 3
    /\ Len(call.result) = 2
    /\ LET found == ParseLines(call.input, <<>>)
       IN  found[1].number > found[2].number

\* C26: parse skips a line that is blank, a prompt echo, does not begin
\* with the prefix CNC, has a first token shorter than 5 characters or a
\* 4th character that is neither A nor B: the result is the one of the
\* listing without these lines, it has a pair for every line of the right
\* shape whose suffix is a number, and it is empty if no line is left.
C26_MalformedLinesSkipped ==
    (call.fn = "parse_port_list" /\ call.done) =>
       LET Token(line) == SplitWS(line)[1]
           Skipped(line) ==
              \/ SplitWS(line) = <<>>
              \/ StartsWith(Token(line), PromptEcho)
              \/ ~StartsWith(Token(line), CNC)
              \/ Len(Token(line)) < 5
              \/ Token(line)[4] \notin {"A", "B"}
           Kept(line) == ~Skipped(line)
           kept == SelectSeq(call.input, Kept)
           Numbered(line) ==
              \A k \in 5..Len(Token(line)) : IsDigit(Token(line)[k])
       IN  /\ call.result = ParsePortList(kept)
           /\ kept = <<>> => call.result = <<>>
           /\ \A k \in 1..Len(kept) :
                 Numbered(kept[k]) =>
                    \E i \in 1..Len(call.result) :
                       call.result[i].number = DigitsValue(Drop(Token(kept[k]), 4), 0)

\* malformed lines around a data line that is found all the same
C26_Witness ==
    /\ call.fn = "parse_port_list"
    /\ call.done
    /\ Len(call.input) = 3
    /\ call.input[1] = <<"C", "N", "C", "A">>
    /\ call.input[3] = <<"c", "o", "m", "m", "a", "n", "d", ">", " ", "l", "i", "s", "t">>
    /\ Len(call.result) = 1
    /\ call.result[1].number = 7
    /\ call.result[1].port_b.port_name = <<"C", "O", "M", "8">>

\* C27: every pair parse returns has a number >= 0; a line whose suffix
\* is signed creates no pair.
C27_NonNegativeNumbers ==
    (call.fn = "parse_port_list" /\ call.done) =>
       \A i \in 1..Len(call.result) : call.result[i].number >= 0

\* C28: in every pair parse returns, the identifier of port_a is CNCA and
\* that of port_b CNCB followed by the decimal rendering of the pair's
\* number, and the two identifiers differ.
C28_IdentifierDerivable ==
    (call.fn = "parse_port_list" /\ call.done) =>
       \A i \in 1..Len(call.result) :
          LET pair == call.result[i]
          IN  /\ pair.port_a.identifier = PortIdent("A", pair.number)
              /\ pair.port_b.identifier = PortIdent("B", pair.number)
              /\ pair.port_a.identifier # pair.port_b.identifier

\* C29: every pair number on an A-side or B-side line yields exactly one
\* pair, with status Active, and every pair comes from such a line; a
\* port without a line of its side and number has an empty port_name and
\* no parameters, a port with lines has the PortName of one of them (of
\* the line, if there is one only); the two lines for CNCA0 and CNCB0
\* give one pair, number 0, with the port names COM150 and COM151.
C29_PairsFromLines ==
    (call.fn = "parse_port_list" /\ call.done) =>
       LET Parts(k) == SplitWS(call.input[k])
           IsData(k) ==
              /\ Parts(k) # <<>>
              /\ StartsWith(Parts(k)[1], CNC)
              /\ Len(Parts(k)[1]) >= 5
              /\ Parts(k)[1][4] \in {"A", "B"}
              /\ PyInt(Drop(Parts(k)[1], 4)).ok
           data == {k \in 1..Len(call.input) : IsData(k)}
           Number(k) == PyInt(Drop(Parts(k)[1], 4)).val
           NameOf(k) ==
              LET params == ParseParameters(JoinSpace(Tail(Parts(k))))
              IN  IF PortNameKey \in DOMAIN params THEN params[PortNameKey] ELSE <<>>
           LinesOf(side, number) ==
              {k \in data : Parts(k)[1][4] = side /\ Number(k) = number}
           FromLines(port, side, number) ==
              IF LinesOf(side, number) = {}
              THEN port.port_name = <<>> /\ port.parameters = <<>>
              ELSE port.port_name \in {NameOf(k) : k \in LinesOf(side, number)}
       IN  /\ \A k \in data :
                 Cardinality({i \in 1..Len(call.result) :
                                 call.result[i].number = Number(k)}) = 1
           /\ \A i \in 1..Len(call.result) :
                 /\ call.result[i].status = "Active"
                 /\ \E k \in data : Number(k) = call.result[i].number
                 /\ FromLines(call.result[i].port_a, "A", call.result[i].number)
                 /\ FromLines(call.result[i].port_b, "B", call.result[i].number)
           /\ call.input = ListingOnePair =>
                 /\ Len(call.result) = 1
                 /\ call.result[1].number = 0
                 /\ call.result[1].port_a.port_name = <<"C", "O", "M", "1", "5", "0">>
                 /\ call.result[1].port_b.port_name = <<"C", "O", "M", "1", "5", "1">>

\* the listing of the two lines for CNCA0 and CNCB0, parsed
C29_Witness ==
    /\ call.fn = "parse_port_list"
    /\ call.done
    /\ call.input = ListingOnePair
    /\ Len(call.result) = 1
    /\ call.result[1].port_b.port_name = <<"C", "O", "M", "1", "5", "1">>

\* C30: the candidate of the allocator, when there is one, lies in
\* START..END and neither it nor its successor is the number of a port
\* name in use on either side of a pair; there is none only if every n
\* of the range has n or n+1 in use; names that are no COM number block
\* nothing.
C30_AllocatorCandidate ==
    (call.fn = "_get_port_availability" /\ call.done) =>
       LET names == UNION {{call.input[i].port_a.port_name, call.input[i].port_b.port_name} :
                              i \in 1..Len(call.input)}
           InUse(n) ==
              \E name \in names :
                 /\ StartsWith(name, COM)
                 /\ Len(name) > 3
                 /\ \A k \in 4..Len(name) : IsDigit(name[k])
                 /\ DigitsValue(Drop(name, 3), 0) = n
           range == VIRTUAL_PORT_RANGE_START..VIRTUAL_PORT_RANGE_END
           n == call.result.next_port
       IN  IF n = -1
           THEN \A c \in range : InUse(c) \/ InUse(c + 1)
           ELSE n \in range /\ ~InUse(n) /\ ~InUse(n + 1)

\* the last candidate of the range is the only one left, beside a pair
\* whose names are no COM numbers
C30_Witness ==
    /\ call.fn = "_get_port_availability"
    /\ call.done
    /\ call.result.next_port = VIRTUAL_PORT_RANGE_END
    /\ call.result.count = 1
    /\ call.input[Len(call.input)].port_a.port_name = COM \o <<"x">>

\* C31: the candidate of the allocator is the smallest n of START..END
\* with n and n+1 both unused, available_count is the number of all such
\* n, and there is no candidate exactly if that number is 0; with the
\* numbers 150, 151, 160 and 161 in use the candidate is 152 and 45
\* candidates are counted.
C31_SmallestAndCount ==
    (call.fn = "_get_port_availability" /\ call.done) =>
       LET names == UNION {{call.input[i].port_a.port_name, call.input[i].port_b.port_name} :
                              i \in 1..Len(call.input)}
           InUse(n) ==
              \E name \in names :
                 /\ StartsWith(name, COM)
                 /\ Len(name) > 3
                 /\ \A k \in 4..Len(name) : IsDigit(name[k])
                 /\ DigitsValue(Drop(name, 3), 0) = n
           used == {n \in 140..260 : InUse(n)}
           free == {c \in VIRTUAL_PORT_RANGE_START..VIRTUAL_PORT_RANGE_END :
                       c \notin used /\ (c + 1) \notin used}
           r == call.result
       IN  /\ r.count = Cardinality(free)
           /\ (r.next_port = -1) <=> (r.count = 0)
           /\ r.next_port # -1 =>
                 r.next_port \in free /\ \A c \in free : r.next_port <= c
           /\ used = {150, 151, 160, 161} => r.next_port = 152 /\ r.count = 45

\* the allocator called with the numbers 150, 151, 160 and 161 in use
C31_Witness ==
    /\ call.fn = "_get_port_availability"
    /\ call.done
    /\ Len(call.input) = 2
    /\ call.input[1].port_b.port_name = COM \o Decimal(151)
    /\ call.input[2].port_a.port_name = COM \o Decimal(160)
    /\ call.input[2].port_b.port_name = COM \o Decimal(161)
    /\ call.result = [next_port |-> 152, count |-> 45]

\* C32: the result of the allocator does not depend on the order of the
\* pairs: the same pairs rotated or reversed, and the same collection
\* once more, give the same candidate and the same count.
C32_OrderIndependent ==
    (call.fn = "_get_port_availability" /\ call.done) =>
       LET pairs == call.input
           n == Len(pairs)
           Reversed == [i \in 1..n |-> pairs[n + 1 - i]]
           Rotated(k) == [i \in 1..n |-> pairs[((i + k - 1) % n) + 1]]
       IN  /\ GetPortAvailability(pairs) = call.result
           /\ GetPortAvailability(Reversed) = call.result
           /\ \A k \in 1..(n - 1) : GetPortAvailability(Rotated(k)) = call.result

\* a collection whose first pair alone would leave another candidate
C32_Witness ==
    /\ call.fn = "_get_port_availability"
    /\ call.done
    /\ Len(call.input) >= 3
    /\ call.input[1].port_a.port_name # COM \o Decimal(VIRTUAL_PORT_RANGE_START)
    /\ call.result.next_port # -1
    /\ GetPortAvailability(<<call.input[1]>>).next_port # call.result.next_port

C35_CreateNamesUnusedPorts ==
    [][(/\ RequestCreate
        /\ toolbar.create
        /\ ~operation_in_progress
        /\ operation_in_progress') =>
          LET issued == IF ui'.pc = "cleanup_terminate" THEN ui'.command
                        ELSE threads'[worker'].command
          IN  {issued.port_a, issued.port_b}
                 \cap GetExistingPortNumbers(ParsePortList(tool)) = {}]_vars

\* C36: a helper process that is running has its process handle open in
\* the worker that launched it, and once closeEvent has returned no helper
\* process is running.
C36_HelperReachable ==
    /\ \A w \in Workers : helpers[w].state = "running" => handles[w].state = "open"
    /\ (closing /\ dismissed) => \A w \in Workers : helpers[w].state # "running"

\* C38: a dismissed dialog has the closing flag set, and a completion
\* handler that fires after the dismissal changes neither the pair set
\* nor the in-progress flag nor the toolbar, and starts nothing.
C38_DismissalQuiesces ==
    /\ [](dismissed => closing)
    /\ [][\A w \in Workers :
             (dismissed /\ Deliver(w)) =>
                /\ UNCHANGED <<port_pairs, operation_in_progress, toolbar>>
                /\ NoWorkerCreated]_vars

\* C39: a request dropped by the guard, made from a trigger of the shown
\* dialog that is enabled, leaves the status text and the enablement of
\* the buttons as they were.
C39_DroppedRequestUnobservable ==
    [][(/\ operation_in_progress \/ closing
        /\ ~dismissed
        /\ \/ RequestList /\ toolbar.refresh
           \/ RequestCreate /\ toolbar.create
           \/ \E i \in 1..Len(port_pairs) : RequestRemove(i)) =>
          toolbar' = toolbar]_vars

\* C34: with a tool that never exits the launcher does not hang.  The
\* timeout the helper reads from its arguments is the launcher's own, is
\* accepted by the helper, and ends before the launcher's wait does; the
\* wait can return whatever the helper does, and no run stays for ever
\* between the start of its wait and its result; and the result
\* built, when the file is read as it stands, from
\* the helper's timeout record, or with the helper still running its
\* command, has success false and return code -1.
C34_NoHang ==
    /\ [](\A w \in Workers :
            At(w, "wait") =>
               LET t == threads[w].timeout
                   parsed == ParseArgv(Parameters(threads[w].command, t), 3,
                                       [timeout |-> 30, output_file |-> FALSE])
               IN  /\ parsed.timeout = t
                   /\ parsed.timeout > 0 /\ parsed.timeout <= 300
                   /\ parsed.timeout * 1000 < WaitMilliseconds(t))
    /\ [][\A w \in Workers :
             LET file == channels[OutputFile(w)]
                 timed_out == [kind |-> "timeout", code |-> 0, stdout |-> ListingEmpty,
                               stderr |-> ""]
                 record == ToDict(ExecuteSetupcCommand(TRUE, helpers[w].command, timed_out))
             IN  (/\ ReadOutput(w)
                  /\ threads'[w].result =
                        HelperResponseResult(file, threads[w].return_code, threads[w].command)
                  /\ \/ file = ObjectFile(record)
                     \/ file.kind = "nofile" /\ HelperAt(w, "start")) =>
                   /\ ~threads'[w].result.success
                   /\ threads'[w].result.return_code = -1]_vars
    /\ [](\A w \in Workers : At(w, "wait") => ENABLED WaitForHelper(w))
    /\ []<>(\A w \in Workers : ~(At(w, "wait") \/ At(w, "getexit") \/ At(w, "read")))

\* the helper's command timed out and the launcher has built the result
\* from the helper's record
C34_Witness ==
    /\ At(1, "emit")
    /\ threads[1].has_result
    /\ ~threads[1].result.success
    /\ threads[1].result.return_code = -1
    /\ threads[1].result.error = "Command timed out"
    /\ helpers[1].state # "running"

\* C37: as long as the closing flag is clear and the UI thread is not
\* inside _execute_command, the in-progress flag is set exactly while a
\* started worker has a completion that is not handled yet; and a set
\* flag is eventually cleared, or the closing flag set, or the completion
\* waiting is one whose follow-up list is beyond the workers modelled.
C37_RequestsResolve ==
    /\ []((~closing /\ UiFree) =>
            (operation_in_progress <=>
               \E w \in Workers :
                  \/ threads[w].signal = "queued"
                  \/ IsRunning(w) /\ threads[w].emits = 0))
    /\ [](operation_in_progress =>
            <>(\/ ~operation_in_progress
               \/ closing
               \/ /\ ~CanStart
                  /\ \E w \in Workers :
                        /\ threads[w].signal = "queued"
                        /\ threads[w].callback # "list"
                        /\ threads[w].result.success))

\* the first request was accepted, its worker has finished and its
\* completion has been handled: the flag is clear again
C37_Witness ==
    /\ ~closing
    /\ ~dismissed
    /\ ~operation_in_progress
    /\ worker = 1
    /\ threads[1].pc = "finished"
    /\ threads[1].emits = 1
    /\ \A w \in Workers : threads[w].signal # "queued"

====
